---- MODULE Spec2Model ----
(***************************************************************************)
(* Fabric logging system: the logging chaincode (LoggingContract), the     *)
(* backend gateway routes of routes/logs.js and the metadata normalizers.  *)
(*                                                                         *)
(* Strings (JavaScript strings, Go strings, transaction payloads) are      *)
(* sequences of tokens, so that JSON.stringify and JSON.parse are real     *)
(* conversions between values and text.                                    *)
(***************************************************************************)
EXTENDS Integers, Sequences, FiniteSets, TLC

(***************************************************************************)
(* Bounds                                                                  *)
(***************************************************************************)
\* number of distinct ids the gateway's id generator can draw
NumIds == 2
\* the clock runs from 0 to MaxTime
MaxTime == 1

(***************************************************************************)
(* Text: a string is a sequence of tokens                                  *)
(***************************************************************************)
\* a token is the pair of its kind and its content
Tok(k, v) == <<k, v>>
\* a JSON punctuation character
P(c) == Tok("p", c)
\* a run of ordinary characters
W(s) == Tok("w", s)
\* a quoted string literal whose decoded content is the text s
Q(s) == Tok("q", s)
\* the literals null, true, false
Lit(s) == Tok("lit", s)
\* a decimal number
Num(n) == Tok("num", n)
\* the text made of one run of ordinary characters
S(s) == <<W(s)>>
EmptyText == <<>>

(***************************************************************************)
(* JavaScript values                                                       *)
(***************************************************************************)
\* a value is the pair of its type and its content
JV(t, v) == <<t, v>>
JUndef == JV("undefined", <<>>)
JNull == JV("null", <<>>)
JBool(b) == JV("boolean", b)
JNum(n) == JV("number", n)
JStr(s) == JV("string", s)
JArr(a) == JV("array", a)
\* an object is its sequence of <<key, value>> members, keys being texts
JObj(m) == JV("object", m)
EmptyObj == JObj(<<>>)

\* typeof x (null and arrays are "object")
TypeOf(x) == IF x[1] \in {"null", "array"} THEN "object" ELSE x[1]

\* !x is FALSE: undefined, null, false, 0 and "" are falsy
Truthy(x) ==
  CASE x[1] \in {"undefined", "null"} -> FALSE
    [] x[1] = "boolean" -> x[2]
    [] x[1] = "number" -> x[2] # 0
    [] x[1] = "string" -> Len(x[2]) > 0
    [] OTHER -> TRUE

\* a plain object: what the data model calls "an object"
IsPlainObject(x) == x[1] = "object"

\* obj[key], undefined when the member is missing
RECURSIVE GetMember(_, _)
GetMember(m, key) ==
  IF Len(m) = 0 THEN JUndef
  ELSE IF Head(m)[1] = key THEN Head(m)[2]
  ELSE GetMember(Tail(m), key)

Field(obj, name) == IF obj[1] = "object" THEN GetMember(obj[2], S(name)) ELSE JUndef

\* obj[key] = val on a member list: replaces in place or appends
RECURSIVE SetMember(_, _, _)
SetMember(m, key, val) ==
  IF Len(m) = 0 THEN <<<<key, val>>>>
  ELSE IF Head(m)[1] = key THEN <<<<key, val>>>> \o Tail(m)
  ELSE <<Head(m)>> \o SetMember(Tail(m), key, val)

\* { ...obj, name: val }
WithField(obj, name, val) == JObj(SetMember(obj[2], S(name), val))

(***************************************************************************)
(* JSON.stringify                                                          *)
(***************************************************************************)
RECURSIVE JSONStringify(_), StringifyItems(_), StringifyMembers(_, _)
JSONStringify(x) ==
  CASE x[1] = "null" -> <<Lit("null")>>
    [] x[1] = "boolean" -> <<Lit(IF x[2] THEN "true" ELSE "false")>>
    [] x[1] = "number" -> <<Num(x[2])>>
    [] x[1] = "string" -> <<Q(x[2])>>
    [] x[1] = "array" -> <<P("[")>> \o StringifyItems(x[2]) \o <<P("]")>>
    [] x[1] = "object" -> <<P("{")>> \o StringifyMembers(x[2], TRUE) \o <<P("}")>>

StringifyItems(a) ==
  IF Len(a) = 0 THEN <<>>
  ELSE (IF Head(a)[1] = "undefined" THEN <<Lit("null")>> ELSE JSONStringify(Head(a)))
       \o (IF Len(a) > 1 THEN <<P(",")>> ELSE <<>>)
       \o StringifyItems(Tail(a))

\* members whose value is undefined are left out
StringifyMembers(m, first) ==
  IF Len(m) = 0 THEN <<>>
  ELSE IF Head(m)[2][1] = "undefined" THEN StringifyMembers(Tail(m), first)
  ELSE (IF first THEN <<>> ELSE <<P(",")>>)
       \o <<Q(Head(m)[1]), P(":")>> \o JSONStringify(Head(m)[2])
       \o StringifyMembers(Tail(m), FALSE)

(***************************************************************************)
(* JSON.parse                                                              *)
(***************************************************************************)
ParseFail == [ok |-> FALSE, val |-> JUndef, rest |-> <<>>]
ParseOk(v, r) == [ok |-> TRUE, val |-> v, rest |-> r]
IsP(ts, c) == Len(ts) > 0 /\ Head(ts)[1] = "p" /\ Head(ts)[2] = c

RECURSIVE ParseValue(_), ParseItems(_, _), ParseMembers(_, _)
ParseValue(ts) ==
  IF Len(ts) = 0 THEN ParseFail
  ELSE LET h == Head(ts)
           r == Tail(ts)
       IN CASE h[1] = "lit" ->
                 ParseOk(IF h[2] = "null" THEN JNull ELSE JBool(h[2] = "true"), r)
            [] h[1] = "num" -> ParseOk(JNum(h[2]), r)
            [] h[1] = "q" -> ParseOk(JStr(h[2]), r)
            [] h[1] = "p" /\ h[2] = "[" ->
                 IF IsP(r, "]") THEN ParseOk(JArr(<<>>), Tail(r))
                 ELSE ParseItems(r, <<>>)
            [] h[1] = "p" /\ h[2] = "{" ->
                 IF IsP(r, "}") THEN ParseOk(EmptyObj, Tail(r))
                 ELSE ParseMembers(r, <<>>)
            [] OTHER -> ParseFail

ParseItems(ts, acc) ==
  LET e == ParseValue(ts)
  IN IF ~e.ok THEN ParseFail
     ELSE IF IsP(e.rest, ",") THEN ParseItems(Tail(e.rest), Append(acc, e.val))
     ELSE IF IsP(e.rest, "]") THEN ParseOk(JArr(Append(acc, e.val)), Tail(e.rest))
     ELSE ParseFail

ParseMembers(ts, acc) ==
  IF Len(ts) < 2 \/ Head(ts)[1] # "q" \/ ~IsP(Tail(ts), ":") THEN ParseFail
  ELSE LET key == Head(ts)[2]
           e == ParseValue(Tail(Tail(ts)))
       IN IF ~e.ok THEN ParseFail
          ELSE IF IsP(e.rest, ",")
            THEN ParseMembers(Tail(e.rest), SetMember(acc, key, e.val))
          ELSE IF IsP(e.rest, "}")
            THEN ParseOk(JObj(SetMember(acc, key, e.val)), Tail(e.rest))
          ELSE ParseFail

\* messages of the errors JSON.parse and later property reads throw
MsgEndOfInput == "Unexpected end of JSON input"
MsgBadToken == "Unexpected token in JSON"
MsgNotArray == "Cannot read properties of null (reading 'map')"
NoError == "none"

\* a raw double-quote character, as written by string formatting
DQ == Tok("dq", "dq")

\* index of the first raw double quote of ts, 0 when there is none
FirstDQ(ts) ==
  LET quotes == {i \in 1..Len(ts) : ts[i][1] = "dq"}
  IN IF quotes = {} THEN 0 ELSE CHOOSE i \in quotes : \A j \in quotes : i <= j

\* the lexer: the characters between two raw double quotes form one string
\* literal; an unterminated quote is left as it is and fails the parse
RECURSIVE Lex(_)
Lex(ts) ==
  LET Literal(i, j) ==
        IF j = 0 THEN ts
        ELSE SubSeq(ts, 1, i - 1) \o <<Q(SubSeq(ts, i + 1, i + j - 1))>>
             \o Lex(SubSeq(ts, i + j + 1, Len(ts)))
      Open(i) == IF i = 0 THEN ts ELSE Literal(i, FirstDQ(SubSeq(ts, i + 1, Len(ts))))
  IN Open(FirstDQ(ts))

\* JSON.parse(text): the value, or the SyntaxError it throws
JSONParse(text) ==
  LET Result(r) ==
        IF r.ok /\ Len(r.rest) = 0 THEN [ok |-> TRUE, val |-> r.val, msg |-> NoError]
        ELSE [ok |-> FALSE, val |-> JUndef,
              msg |-> IF Len(text) = 0 THEN MsgEndOfInput ELSE MsgBadToken]
  IN Result(ParseValue(Lex(text)))

(***************************************************************************)
(* The chaincode: LogEvent, world state and the LoggingContract            *)
(***************************************************************************)
\* time.Now().Format(time.RFC3339): whole seconds, no fraction
NoFrac == 1000
RFC3339(t) == <<Tok("ts", <<t, NoFrac>>)>>
\* new Date().toISOString(): seconds with a millisecond fraction
ISOString(t, ms) == <<Tok("ts", <<t, ms>>)>>

\* string order of two texts (the state database compares strings): the
\* character after the seconds is "." in a text with a fraction and "Z" in
\* one without, and "." sorts before "Z"
IsTs(x) == Len(x) = 1 /\ x[1][1] = "ts"
TextLE(a, b) ==
  IF IsTs(a) /\ IsTs(b)
  THEN \/ a[1][2][1] < b[1][2][1]
       \/ a[1][2][1] = b[1][2][1] /\ a[1][2][2] <= b[1][2][2]
  ELSE a = b

LogEvent(id, userId, action, resource, timestamp, description, metadata) ==
  [ID |-> id, UserID |-> userId, Action |-> action, Resource |-> resource,
   Timestamp |-> timestamp, Description |-> description, Metadata |-> metadata]

\* json.Marshal(log): the stored document; metadata has omitempty
GoMarshal(log) ==
  JObj(<< <<S("id"), JStr(log.ID)>>,
          <<S("userId"), JStr(log.UserID)>>,
          <<S("action"), JStr(log.Action)>>,
          <<S("resource"), JStr(log.Resource)>>,
          <<S("timestamp"), JStr(log.Timestamp)>>,
          <<S("description"), JStr(log.Description)>> >>
       \o (IF Len(log.Metadata) = 0 THEN <<>>
           ELSE << <<S("metadata"), JStr(log.Metadata)>> >>))

\* json.Unmarshal(doc, &log): a missing or non-string member leaves ""
GoString(x) == IF x[1] = "string" THEN x[2] ELSE EmptyText
GoUnmarshal(doc) ==
  LogEvent(GoString(Field(doc, "id")), GoString(Field(doc, "userId")),
           GoString(Field(doc, "action")), GoString(Field(doc, "resource")),
           GoString(Field(doc, "timestamp")), GoString(Field(doc, "description")),
           GoString(Field(doc, "metadata")))

\* the keys of the world state: "LOG0" and the ids the gateway generates
InitId == <<W("LOG"), Num(0)>>
GenId(i) == <<W("LOG"), Tok("hex", i)>>
GenIds == {GenId(i) : i \in 1..NumIds}
Keys == {InitId} \cup GenIds
\* the keys in key order, the order of range and query iterators
KeyOrder == <<InitId>> \o [i \in 1..NumIds |-> GenId(i)]

\* GetState(id) = nil
Nil == JUndef
EmptyLedger == [k \in Keys |-> Nil]

\* error messages of the contract
MsgExists == "the log already exists"
MsgNotExist == "the log does not exist"
MsgWorldState == "failed to read from world state"
MsgPutState == "failed to put to world state"
MsgQuery == "query failed"
MsgParams == "Incorrect number of params"
MsgNoFunction == "Function not found"

TxOk(ws, payload) == [err |-> NoError, payload |-> payload, ws |-> ws]
TxErr(ws, msg) == [err |-> msg, payload |-> EmptyText, ws |-> ws]

InitLedger(ws, t, stubFails) ==
  IF stubFails THEN TxErr(ws, MsgPutState)
  ELSE TxOk([ws EXCEPT ![InitId] =
               GoMarshal(LogEvent(InitId, S("user1"), S("VISIT"), S("/home"),
                                  RFC3339(t), S("User visited home page"),
                                  EmptyText))],
            EmptyText)

LogExists(ws, id, stubFails) ==
  IF stubFails THEN [exists |-> FALSE, err |-> MsgWorldState]
  ELSE [exists |-> id \in Keys /\ ws[id] # Nil, err |-> NoError]

\* CreateLog without the existence check: the write replaces the record
CreateLog_Overwrite(ws, t, id, userId, action, resource, description, metadata, stubFails) ==
  IF stubFails THEN TxErr(ws, MsgWorldState)
  ELSE TxOk([ws EXCEPT ![id] =
               GoMarshal(LogEvent(id, userId, action, resource, RFC3339(t),
                                  description, metadata))],
            EmptyText)

CreateLog(ws, t, id, userId, action, resource, description, metadata, stubFails) ==
  LET e == LogExists(ws, id, stubFails)
  IN IF e.err # NoError THEN TxErr(ws, e.err)
     ELSE IF e.exists THEN TxErr(ws, MsgExists)
     ELSE TxOk([ws EXCEPT ![id] =
                  GoMarshal(LogEvent(id, userId, action, resource, RFC3339(t),
                                     description, metadata))],
               EmptyText)

\* the transaction serializer: a nil result is sent as nilText
ReadLog(ws, id, stubFails) ==
  IF stubFails THEN TxErr(ws, MsgWorldState)
  ELSE IF id \notin Keys \/ ws[id] = Nil THEN TxErr(ws, MsgNotExist)
  ELSE TxOk(ws, JSONStringify(GoMarshal(GoUnmarshal(ws[id]))))

\* a Mango selector: every member is field = value, or field within
\* {"$gte": a, "$lte": b} under string order
MatchCond(val, cond) ==
  IF cond[1] = "object"
  THEN \A j \in 1..Len(cond[2]) :
         LET op == cond[2][j][1]
             arg == cond[2][j][2]
         IN /\ val[1] = "string"
            /\ arg[1] = "string"
            /\ CASE op = S("$gte") -> TextLE(arg[2], val[2])
                 [] op = S("$lte") -> TextLE(val[2], arg[2])
                 [] OTHER -> FALSE
  ELSE val = cond

MatchSelector(doc, sel) ==
  \A i \in 1..Len(sel[2]) : MatchCond(GetMember(doc[2], sel[2][i][1]), sel[2][i][2])

\* the rows of an iterator, in key order, each unmarshalled into a LogEvent
\* and marshalled again by the transaction serializer
RECURSIVE Rows(_, _, _)
Rows(ws, sel, i) ==
  IF i > Len(KeyOrder) THEN <<>>
  ELSE (IF ws[KeyOrder[i]] # Nil /\ MatchSelector(ws[KeyOrder[i]], sel)
        THEN <<GoMarshal(GoUnmarshal(ws[KeyOrder[i]]))>> ELSE <<>>)
       \o Rows(ws, sel, i + 1)

\* the serialized []*LogEvent: a nil slice (no rows) is sent as nilText
SerializeLogs(rows, nilText) ==
  IF Len(rows) = 0 THEN nilText ELSE JSONStringify(JArr(rows))

\* GetStateByRange("", ""): every key
GetAllLogs(ws, stubFails, nilText) ==
  IF stubFails THEN TxErr(ws, MsgQuery)
  ELSE TxOk(ws, SerializeLogs(Rows(ws, EmptyObj, 1), nilText))

getQueryResultForQueryString(ws, queryString, stubFails, nilText) ==
  LET Run(q, sel) ==
        IF stubFails \/ ~q.ok \/ sel[1] # "object" THEN TxErr(ws, MsgQuery)
        ELSE TxOk(ws, SerializeLogs(Rows(ws, sel, 1), nilText))
      Query(q) == Run(q, Field(q.val, "selector"))
  IN Query(JSONParse(queryString))

\* fmt.Sprintf(`{"selector":{"<field>":"%s"}}`, value)
SelectorQuery(field, value) ==
  <<P("{"), DQ, W("selector"), DQ, P(":"), P("{"), DQ, W(field), DQ, P(":"), DQ>>
  \o value \o <<DQ, P("}"), P("}")>>

GetLogsByUser(ws, userId, stubFails, nilText) ==
  getQueryResultForQueryString(ws, SelectorQuery("userId", userId), stubFails, nilText)

GetLogsByAction(ws, action, stubFails, nilText) ==
  getQueryResultForQueryString(ws, SelectorQuery("action", action), stubFails, nilText)

GetLogsByResource(ws, resource, stubFails, nilText) ==
  getQueryResultForQueryString(ws, SelectorQuery("resource", resource), stubFails, nilText)

\* fmt.Sprintf(`{"selector":{"timestamp":{"$gte":"%s","$lte":"%s"}}}`, ...)
GetLogsByTimeRange(ws, startTime, endTime, stubFails, nilText) ==
  getQueryResultForQueryString(ws,
    <<P("{"), DQ, W("selector"), DQ, P(":"), P("{"), DQ, W("timestamp"), DQ,
      P(":"), P("{"), DQ, W("$gte"), DQ, P(":"), DQ>> \o startTime
    \o <<DQ, P(","), DQ, W("$lte"), DQ, P(":"), DQ>> \o endTime
    \o <<DQ, P("}"), P("}"), P("}")>>,
    stubFails, nilText)

\* the contract API dispatches a transaction by name and checks the number
\* of arguments against the function's parameters
Invoke(ws, t, fn, args, stubFails, nilText) ==
  CASE fn = "InitLedger" ->
         IF Len(args) # 0 THEN TxErr(ws, MsgParams) ELSE InitLedger(ws, t, stubFails)
    [] fn = "CreateLog" ->
         IF Len(args) # 6 THEN TxErr(ws, MsgParams)
         ELSE CreateLog(ws, t, args[1], args[2], args[3], args[4], args[5], args[6],
                        stubFails)
    [] fn = "ReadLog" ->
         IF Len(args) # 1 THEN TxErr(ws, MsgParams) ELSE ReadLog(ws, args[1], stubFails)
    [] fn = "GetAllLogs" ->
         IF Len(args) # 0 THEN TxErr(ws, MsgParams) ELSE GetAllLogs(ws, stubFails, nilText)
    [] fn = "GetLogsByUser" ->
         IF Len(args) # 1 THEN TxErr(ws, MsgParams)
         ELSE GetLogsByUser(ws, args[1], stubFails, nilText)
    [] fn = "GetLogsByAction" ->
         IF Len(args) # 1 THEN TxErr(ws, MsgParams)
         ELSE GetLogsByAction(ws, args[1], stubFails, nilText)
    [] fn = "GetLogsByResource" ->
         IF Len(args) # 1 THEN TxErr(ws, MsgParams)
         ELSE GetLogsByResource(ws, args[1], stubFails, nilText)
    [] fn = "GetLogsByTimeRange" ->
         IF Len(args) # 2 THEN TxErr(ws, MsgParams)
         ELSE GetLogsByTimeRange(ws, args[1], args[2], stubFails, nilText)
    [] OTHER -> TxErr(ws, MsgNoFunction)

(***************************************************************************)
(* The gateway: routes/logs.js                                             *)
(***************************************************************************)
\* what can go wrong with the ledger during one request: nothing, the
\* connection (connectToContract throws), or the transaction's state access
Faults == {"none", "connect", "stub"}
MsgConnect == "failed to connect to the network"

\* texts a build of the contract API sends for a nil result
EndOfInputText == EmptyText
NullText == <<Lit("null")>>
NilTexts == {EndOfInputText, NullText}

\* contract.evaluateTransaction(fn, ...args): state is not committed
evaluateTransaction(ws, t, fn, args, fault, nilText) ==
  LET Result(tx) == [err |-> tx.err, payload |-> tx.payload]
  IN Result(Invoke(ws, t, fn, args, fault = "stub", nilText))

\* contract.submitTransaction(fn, ...args): committed when the call succeeds
submitTransaction(ws, t, fn, args, fault, nilText) ==
  Invoke(ws, t, fn, args, fault = "stub", nilText)

\* an HTTP response: status and the JSON body's members; no handler sets
\* the member source, which the client reads as response.data.source
Response(status, success, message, error, logs, log, logId) ==
  [status |-> status, success |-> success, message |-> message, error |-> error,
   logs |-> logs, log |-> log, logId |-> logId, source |-> JUndef]

\* the stores a handler contacts, in order: the routes reach the ledger
\* through connectToContract and import no reader of the state database
Stores(handler, resp) ==
  IF handler = "none" \/ resp.status = 400 THEN <<>> ELSE <<"ledger">>

\* the gateway of a category route, of GET /:id and of POST / : the handler
\* obtains it from connectToContract after its validation, and calls
\* gateway.disconnect() once, on the path to its success response
GatewayUse(handler, fault, resp) ==
  [obtained |-> handler # "none" /\ resp.status # 400 /\ fault # "connect",
   disconnected |-> resp.success]

Failure(status, message, error) ==
  Response(status, FALSE, message, error, JUndef, JUndef, EmptyText)
LogsResponse(logs) == Response(200, TRUE, "", NoError, logs, JUndef, EmptyText)
LogResponse(log) == Response(200, TRUE, "", NoError, JUndef, log, EmptyText)

\* { ...log }
Spread(log) == IF log[1] = "object" THEN log ELSE EmptyObj

processLogMetadata(log) ==
  LET processedLog == Spread(log)
      metadata == Field(processedLog, "metadata")
  IN IF ~Truthy(metadata) THEN WithField(processedLog, "metadata", EmptyObj)
     ELSE IF TypeOf(metadata) = "string"
       THEN LET Parsed(r) == IF r.ok THEN r.val ELSE EmptyObj
            IN WithField(processedLog, "metadata", Parsed(JSONParse(metadata[2])))
     ELSE processedLog

\* logsFromChain.map(processLogMetadata)
RECURSIVE MapProcess(_)
MapProcess(a) ==
  IF Len(a) = 0 THEN <<>> ELSE <<processLogMetadata(Head(a))>> \o MapProcess(Tail(a))

\* the body shared by the category routes: evaluate, parse, map, respond
ListRoute(ws, t, fn, args, fault, nilText, message) ==
  IF fault = "connect" THEN Failure(500, message, MsgConnect)
  ELSE LET Respond(result, parsed) ==
             IF result.err # NoError THEN Failure(500, message, result.err)
             ELSE IF ~parsed.ok THEN Failure(500, message, parsed.msg)
             ELSE IF parsed.val[1] # "array" THEN Failure(500, message, MsgNotArray)
             ELSE LogsResponse(JArr(MapProcess(parsed.val[2])))
           Parse(result) == Respond(result, JSONParse(result.payload))
       IN Parse(evaluateTransaction(ws, t, fn, args, fault, nilText))

\* GET /:id answering every failure with the same generic error
getById_GenericError(ws, t, id, fault) ==
  IF fault = "connect" THEN Failure(500, "Failed to get log", "Internal error")
  ELSE LET Respond(result, parsed) ==
             IF result.err # NoError \/ ~parsed.ok
             THEN Failure(500, "Failed to get log", "Internal error")
             ELSE LogResponse(processLogMetadata(parsed.val))
           Parse(result) == Respond(result, JSONParse(result.payload))
       IN Parse(evaluateTransaction(ws, t, "ReadLog", <<id>>, fault, EmptyText))

\* GET /:id
getById(ws, t, id, fault) ==
  IF fault = "connect" THEN Failure(500, "Failed to get log", MsgConnect)
  ELSE LET Respond(result, parsed) ==
             IF result.err # NoError THEN Failure(500, "Failed to get log", result.err)
             ELSE IF ~parsed.ok THEN Failure(500, "Failed to get log", parsed.msg)
             ELSE LogResponse(processLogMetadata(parsed.val))
           Parse(result) == Respond(result, JSONParse(result.payload))
       IN Parse(evaluateTransaction(ws, t, "ReadLog", <<id>>, fault, EmptyText))

\* GET /user/:userId
getByUser(ws, t, userId, fault, nilText) ==
  ListRoute(ws, t, "GetLogsByUser", <<userId>>, fault, nilText,
            "Failed to get logs by user")

\* GET /action/:action
getByAction(ws, t, action, fault, nilText) ==
  ListRoute(ws, t, "GetLogsByAction", <<action>>, fault, nilText,
            "Failed to get logs by action")

\* GET /resource/:resource
getByResource(ws, t, resource, fault, nilText) ==
  ListRoute(ws, t, "GetLogsByResource", <<resource>>, fault, nilText,
            "Failed to get logs by resource")

\* GET /timerange?startTime=&endTime= ; a missing parameter is undefined
getByTimeRange(ws, t, startTime, endTime, fault, nilText) ==
  IF ~Truthy(startTime) \/ ~Truthy(endTime)
  THEN Failure(400, "Both startTime and endTime are required", NoError)
  ELSE ListRoute(ws, t, "GetLogsByTimeRange", <<startTime[2], endTime[2]>>, fault,
                 nilText, "Failed to get logs by time range")

\* the sweep's fixed lists
KnownActions ==
  <<S("LOGIN"), S("LOGOUT"), S("CREATE"), S("UPDATE"), S("DELETE"), S("VIEW"),
    S("API_CALL"), S("TRANSACTION"), S("ERROR")>>
KnownResources ==
  <<S("application"), S("document"), S("/dashboard"), S("/api"), S("user"), S("system")>>

\* new Date(0): earlier than every clock value
Epoch == -1

\* safeParseJSON: [] for empty or unparseable text
safeParseJSON(jsonString) ==
  IF Len(jsonString) = 0 THEN JArr(<<>>)
  ELSE LET Parsed(r) == IF r.ok THEN r.val ELSE JArr(<<>>)
       IN Parsed(JSONParse(jsonString))

\* discoveredUsers.add(userId): a Set keeps insertion order
SetAdd(set, x) == IF \E i \in 1..Len(set) : set[i] = x THEN set ELSE Append(set, x)

\* logs.forEach(log => { if (log && log.userId) discoveredUsers.add(log.userId) })
RECURSIVE AddUsers(_, _)
AddUsers(discovered, logs) ==
  IF Len(logs) = 0 THEN discovered
  ELSE AddUsers(IF Truthy(Head(logs)) /\ Truthy(Field(Head(logs), "userId"))
                THEN SetAdd(discovered, Field(Head(logs), "userId"))
                ELSE discovered,
                Tail(logs))

\* a sweep sub-query: the transactions named in failing throw
SweepEvaluate(ws, t, fn, args, failing, nilText) ==
  evaluateTransaction(ws, t, fn, args, IF fn \in failing THEN "stub" ELSE "none", nilText)

\* one discovery query: a thrown error and an empty payload are skipped
Discover(discovered, result) ==
  IF result.err # NoError \/ Len(result.payload) = 0 THEN discovered
  ELSE LET Add(logs) ==
             IF logs[1] = "array" THEN AddUsers(discovered, logs[2]) ELSE discovered
       IN Add(safeParseJSON(result.payload))

\* for (const x of list) { ... evaluateTransaction(fn, x) ... }
RECURSIVE DiscoverBy(_, _, _, _, _, _, _, _)
DiscoverBy(ws, t, fn, list, i, discovered, failing, nilText) ==
  IF i > Len(list) THEN discovered
  ELSE DiscoverBy(ws, t, fn, list, i + 1,
                  Discover(discovered,
                           SweepEvaluate(ws, t, fn, <<list[i]>>, failing, nilText)),
                  failing, nilText)

\* the mapping of the sweep's per-user results
SweepMetadata(log) ==
  LET processedLog == Spread(log)
      metadata == Field(processedLog, "metadata")
  IN IF ~Truthy(metadata) THEN WithField(processedLog, "metadata", EmptyObj)
     ELSE IF TypeOf(metadata) = "string"
       THEN LET Parsed(r) == IF r.ok THEN r.val ELSE EmptyObj
            IN WithField(processedLog, "metadata", Parsed(JSONParse(metadata[2])))
     ELSE processedLog

RECURSIVE MapSweep(_)
MapSweep(a) ==
  IF Len(a) = 0 THEN <<>> ELSE <<SweepMetadata(Head(a))>> \o MapSweep(Tail(a))

\* the logs of the discovered users, concatenated
RECURSIVE CollectUsers(_, _, _, _, _, _)
CollectUsers(ws, t, users, i, failing, nilText) ==
  IF i > Len(users) THEN <<>>
  ELSE LET Logs(result, userLogs) ==
             IF \/ result.err # NoError
                \/ Len(result.payload) = 0
                \/ userLogs[1] # "array"
             THEN <<>>
             ELSE MapSweep(userLogs[2])
           Parse(result) == Logs(result, safeParseJSON(result.payload))
       IN Parse(SweepEvaluate(ws, t, "GetLogsByUser", <<users[i][2]>>, failing,
                              nilText))
          \o CollectUsers(ws, t, users, i + 1, failing, nilText)

\* the collected logs as they are, every occurrence kept
MapById_KeepAll(entries, logs) == entries \o logs

\* Array.from(new Map(logs.map(log => [log.id, log])).values()): one entry
\* per id, at the position of the id's first occurrence, holding the id's
\* last occurrence
RECURSIVE MapById(_, _)
MapById(entries, logs) ==
  IF Len(logs) = 0 THEN entries
  ELSE LET log == Head(logs)
           key == Field(log, "id")
           at == {i \in 1..Len(entries) : Field(entries[i], "id") = key}
       IN MapById(IF at = {} THEN Append(entries, log)
                  ELSE [entries EXCEPT ![CHOOSE i \in at : TRUE] = log],
                  Tail(logs))

\* the mapping of the full enumeration's result
PrimaryMetadata(log) ==
  LET processedLog == Spread(log)
      metadata == Field(processedLog, "metadata")
  IN IF metadata[1] \in {"undefined", "null"}
     THEN WithField(processedLog, "metadata", EmptyObj)
     ELSE IF TypeOf(metadata) = "string"
       THEN LET Parsed(r) == IF r.ok THEN r.val ELSE EmptyObj
            IN WithField(processedLog, "metadata", Parsed(JSONParse(metadata[2])))
     ELSE processedLog

RECURSIVE MapPrimary(_)
MapPrimary(a) ==
  IF Len(a) = 0 THEN <<>> ELSE <<PrimaryMetadata(Head(a))>> \o MapPrimary(Tail(a))

\* the calls a sweep makes, in order
RECURSIVE CallsFor(_, _, _)
CallsFor(fn, list, i) ==
  IF i > Len(list) THEN <<>> ELSE <<<<fn, list[i]>>>> \o CallsFor(fn, list, i + 1)

\* a member of a sweep's plan beside the transactions that throw: what they
\* throw is not an Error, it has no message text
NoMessage == "thrown value without message"

\* err.message.includes(...) on a thrown value that has no message text
MsgNoIncludes == "Cannot read properties of undefined (reading 'includes')"

\* the fallback of GET / : discover users by time range, action and
\* resource, then collect the logs of every discovered user; the catch of
\* the action, resource and user queries reads the message of what was
\* thrown, the catch of the time-range query does not
sweep(ws, t, ms, queryUserId, failing, nilText) ==
  LET pastTime == ISOString(Epoch, 0)
      currentTime == ISOString(t, ms)
      discovery == <<<<"GetLogsByTimeRange", pastTime>>>>
                   \o CallsFor("GetLogsByAction", KnownActions, 1)
                   \o CallsFor("GetLogsByResource", KnownResources, 1)
      Unreadable(fn) == fn \in failing /\ NoMessage \in failing
      Abort(calls) ==
        [resp |-> Failure(500, "Failed to get logs with fallback strategy",
                          MsgNoIncludes),
         calls |-> calls, disconnected |-> TRUE]
      Collect(discoveredUsers) ==
        IF Len(discoveredUsers) = 0
        THEN [resp |-> LogsResponse(JArr(<<>>)), calls |-> discovery,
              disconnected |-> TRUE]
        ELSE IF Unreadable("GetLogsByUser")
        THEN Abort(discovery \o <<<<"GetLogsByUser", discoveredUsers[1][2]>>>>)
        ELSE [resp |-> LogsResponse(JArr(
                         MapById(<<>>, CollectUsers(ws, t, discoveredUsers, 1, failing,
                                                    nilText)))),
              calls |-> discovery
                        \o CallsFor("GetLogsByUser",
                                    [i \in 1..Len(discoveredUsers) |->
                                       discoveredUsers[i][2]],
                                    1),
              disconnected |-> TRUE]
      Seed(byResource) ==
        Collect(IF Len(byResource) = 0 /\ Truthy(queryUserId) THEN <<queryUserId>>
                ELSE byResource)
      ByResource(byAction) ==
        IF Unreadable("GetLogsByResource")
        THEN Abort(SubSeq(discovery, 1, Len(KnownActions) + 2))
        ELSE Seed(DiscoverBy(ws, t, "GetLogsByResource", KnownResources, 1, byAction,
                             failing, nilText))
      ByAction(byTime) ==
        IF Unreadable("GetLogsByAction")
        THEN Abort(SubSeq(discovery, 1, 2))
        ELSE ByResource(DiscoverBy(ws, t, "GetLogsByAction", KnownActions, 1, byTime,
                                   failing, nilText))
  IN ByAction(Discover(<<>>, SweepEvaluate(ws, t, "GetLogsByTimeRange",
                                           <<pastTime, currentTime>>, failing,
                                           nilText)))

\* GET / : the response, the transactions evaluated and whether the gateway
\* was disconnected
getAll(ws, t, ms, queryUserId, fault, failing, nilText) ==
  IF fault = "connect"
  THEN [resp |-> Failure(500, "Failed to get logs", MsgConnect), calls |-> <<>>,
        disconnected |-> TRUE]
  ELSE LET first == <<<<"GetAllLogs", EmptyText>>>>
           Fallback(fallback) ==
             [resp |-> fallback.resp, calls |-> first \o fallback.calls,
              disconnected |-> fallback.disconnected]
           Respond(result, parsed) ==
             IF result.err = NoError /\ ~parsed.ok
             THEN [resp |-> Failure(500, "Failed to parse logs data", parsed.msg),
                   calls |-> first, disconnected |-> FALSE]
             ELSE IF result.err = NoError /\ parsed.val[1] = "array"
             THEN [resp |-> LogsResponse(JArr(MapPrimary(parsed.val[2]))),
                   calls |-> first, disconnected |-> TRUE]
             ELSE Fallback(sweep(ws, t, ms, queryUserId, failing, nilText))
           Parse(result) == Respond(result, JSONParse(result.payload))
       IN Parse(evaluateTransaction(ws, t, "GetAllLogs", <<>>, fault, nilText))

\* POST / answering success whatever the transaction returned
post_IgnoresTxError(ws, t, body, logId, fault) ==
  LET userId == body.userId
      action == body.action
      resource == body.resource
      description == body.description
      metadata == body.metadata
      metadataString ==
        IF ~Truthy(metadata) THEN <<P("{"), P("}")>>
        ELSE IF TypeOf(metadata) = "string" THEN metadata[2]
        ELSE JSONStringify(metadata)
  IN IF ~Truthy(userId) \/ ~Truthy(action) \/ ~Truthy(resource)
     THEN [resp |-> Failure(400, "userId, action, and resource are required fields",
                            NoError),
           ws |-> ws, calls |-> <<>>]
     ELSE IF Truthy(metadata) /\ ~JSONParse(metadataString).ok
     THEN [resp |-> Failure(400, "metadata must be valid JSON", NoError),
           ws |-> ws, calls |-> <<>>]
     ELSE IF fault = "connect"
     THEN [resp |-> Failure(500, "Failed to create log", MsgConnect),
           ws |-> ws, calls |-> <<"connectToContract">>]
     ELSE LET Respond(tx) ==
                [resp |-> Response(201, TRUE, "Log created successfully", NoError,
                                   JUndef, JUndef, logId),
                 ws |-> tx.ws, calls |-> <<"connectToContract", "CreateLog">>]
          IN Respond(submitTransaction(ws, t, "CreateLog",
                       <<logId, userId[2], action[2], resource[2],
                         IF Truthy(description) THEN description[2] ELSE EmptyText,
                         metadataString>>, fault, EmptyText))

\* POST / without the check that metadata parses
post_NoMetadataCheck(ws, t, body, logId, fault) ==
  LET userId == body.userId
      action == body.action
      resource == body.resource
      description == body.description
      metadata == body.metadata
      metadataString ==
        IF ~Truthy(metadata) THEN <<P("{"), P("}")>>
        ELSE IF TypeOf(metadata) = "string" THEN metadata[2]
        ELSE JSONStringify(metadata)
  IN IF ~Truthy(userId) \/ ~Truthy(action) \/ ~Truthy(resource)
     THEN [resp |-> Failure(400, "userId, action, and resource are required fields",
                            NoError),
           ws |-> ws, calls |-> <<>>]
     ELSE IF fault = "connect"
     THEN [resp |-> Failure(500, "Failed to create log", MsgConnect),
           ws |-> ws, calls |-> <<"connectToContract">>]
     ELSE LET Respond(tx) ==
                IF tx.err # NoError
                THEN [resp |-> Failure(500, "Failed to create log", tx.err), ws |-> ws,
                      calls |-> <<"connectToContract", "CreateLog">>]
                ELSE [resp |-> Response(201, TRUE, "Log created successfully", NoError,
                                        JUndef, JUndef, logId),
                      ws |-> tx.ws, calls |-> <<"connectToContract", "CreateLog">>]
          IN Respond(submitTransaction(ws, t, "CreateLog",
                       <<logId, userId[2], action[2], resource[2],
                         IF Truthy(description) THEN description[2] ELSE EmptyText,
                         metadataString>>, fault, EmptyText))

\* POST / : the response, the world state after the request and the calls
\* the handler made on the ledger
post(ws, t, body, logId, fault) ==
  LET userId == body.userId
      action == body.action
      resource == body.resource
      description == body.description
      metadata == body.metadata
      metadataString ==
        IF ~Truthy(metadata) THEN <<P("{"), P("}")>>
        ELSE IF TypeOf(metadata) = "string" THEN metadata[2]
        ELSE JSONStringify(metadata)
  IN IF ~Truthy(userId) \/ ~Truthy(action) \/ ~Truthy(resource)
     THEN [resp |-> Failure(400, "userId, action, and resource are required fields",
                            NoError),
           ws |-> ws, calls |-> <<>>]
     ELSE IF Truthy(metadata) /\ ~JSONParse(metadataString).ok
     THEN [resp |-> Failure(400, "metadata must be valid JSON", NoError),
           ws |-> ws, calls |-> <<>>]
     ELSE IF fault = "connect"
     THEN [resp |-> Failure(500, "Failed to create log", MsgConnect),
           ws |-> ws, calls |-> <<"connectToContract">>]
     ELSE LET Respond(tx) ==
                IF tx.err # NoError
                THEN [resp |-> Failure(500, "Failed to create log", tx.err), ws |-> ws,
                      calls |-> <<"connectToContract", "CreateLog">>]
                ELSE [resp |-> Response(201, TRUE, "Log created successfully", NoError,
                                        JUndef, JUndef, logId),
                      ws |-> tx.ws, calls |-> <<"connectToContract", "CreateLog">>]
          IN Respond(submitTransaction(ws, t, "CreateLog",
                       <<logId, userId[2], action[2], resource[2],
                         IF Truthy(description) THEN description[2] ELSE EmptyText,
                         metadataString>>, fault, EmptyText))

\* the router: routes in registration order; a pattern segment starting
\* with ":" is a parameter and matches any one segment
Param == W(":")
Routes ==
  << [method |-> "GET", pattern |-> <<>>, handler |-> "getAll"],
     [method |-> "GET", pattern |-> <<Param>>, handler |-> "getById"],
     [method |-> "GET", pattern |-> <<W("user"), Param>>, handler |-> "getByUser"],
     [method |-> "GET", pattern |-> <<W("action"), Param>>, handler |-> "getByAction"],
     [method |-> "GET", pattern |-> <<W("resource"), Param>>, handler |-> "getByResource"],
     [method |-> "GET", pattern |-> <<W("timerange")>>, handler |-> "getByTimeRange"],
     [method |-> "POST", pattern |-> <<>>, handler |-> "post"] >>

\* path is a sequence of segments, each a text
MatchesRoute(route, method, path) ==
  /\ route.method = method
  /\ Len(route.pattern) = Len(path)
  /\ \A i \in 1..Len(path) :
        route.pattern[i] = Param \/ path[i] = <<route.pattern[i]>>

RECURSIVE FirstRoute(_, _, _)
FirstRoute(method, path, i) ==
  IF i > Len(Routes) THEN "none"
  ELSE IF MatchesRoute(Routes[i], method, path) THEN Routes[i].handler
  ELSE FirstRoute(method, path, i + 1)

Dispatch(method, path) == FirstRoute(method, path, 1)

(***************************************************************************)
(* The readers of the state database: utils/couchdb.js                     *)
(***************************************************************************)
\* what the state database does during one read: it answers, the database
\* does not exist (404), or the connection or the query fails
IndexFaults == {"none", "missing", "error"}

\* metadata of a document as the readers return it
IndexMetadata(metadata) ==
  IF TypeOf(metadata) = "string"
  THEN LET Parsed(r) ==
             IF r.ok THEN r.val ELSE JObj(<< <<S("raw"), metadata>> >>)
       IN Parsed(JSONParse(metadata[2]))
  ELSE IF ~Truthy(metadata) THEN EmptyObj
  ELSE metadata

\* the log object built from the document stored under key; id is the
\* member the reader takes as the log's id
IndexLog(doc, id) ==
  JObj(<< <<S("id"), id>>,
          <<S("userId"), Field(doc, "userId")>>,
          <<S("action"), Field(doc, "action")>>,
          <<S("resource"), Field(doc, "resource")>>,
          <<S("timestamp"), Field(doc, "timestamp")>>,
          <<S("description"), Field(doc, "description")>>,
          <<S("metadata"), IndexMetadata(Field(doc, "metadata"))>> >>)

\* doc.id || doc._id
DocId(doc, key) == IF Truthy(Field(doc, "id")) THEN Field(doc, "id") ELSE JStr(key)

\* the documents of the database in key order, mapped to logs; action is
\* JUndef for db.list and the selector's action for db.find
RECURSIVE IndexRows(_, _, _)
IndexRows(ws, action, i) ==
  IF i > Len(KeyOrder) THEN <<>>
  ELSE (IF /\ ws[KeyOrder[i]] # Nil
           /\ action # JUndef => Field(ws[KeyOrder[i]], "action") = action
        THEN <<IndexLog(ws[KeyOrder[i]], DocId(ws[KeyOrder[i]], KeyOrder[i]))>>
        ELSE <<>>)
       \o IndexRows(ws, action, i + 1)

\* queryLogsFromCouchDB: every document of the database
queryLogsFromCouchDB(ws, fault) ==
  IF fault # "none" THEN JNull ELSE JArr(IndexRows(ws, JUndef, 1))

\* getLogByIdFromCouchDB: db.get throws 404 for a document that is absent
getLogByIdFromCouchDB(ws, id, fault) ==
  IF Len(id) = 0 THEN JNull
  ELSE IF fault # "none" \/ id \notin Keys THEN JNull
  ELSE IF ws[id] = Nil THEN JNull
  ELSE IndexLog(ws[id], JStr(id))

\* getLogsByActionFromCouchDB: db.find by action
getLogsByActionFromCouchDB(ws, action, fault) ==
  IF fault # "none" THEN JNull
  ELSE LET Found(docs) == IF Len(docs) > 0 THEN JArr(docs) ELSE JNull
       IN Found(IndexRows(ws, JStr(action), 1))

(***************************************************************************)
(* The request logger: middleware/loggingMiddleware.js                     *)
(***************************************************************************)
\* logData.metadata once the response has ended, as JSON.stringify writes it
RequestMetadata(method, statusCode) ==
  JSONStringify(JObj(<< <<S("ip"), JStr(S("::1"))>>,
                        <<S("method"), JStr(<<W(method)>>)>>,
                        <<S("userAgent"), JStr(S("axios"))>>,
                        <<S("requestBody"), JNull>>,
                        <<S("statusCode"), JNum(statusCode)>>,
                        <<S("responseTime"), JNum(0)>> >>))

\* the arguments the logger submits with CreateLog: id, userId, action,
\* resource, timestamp, description, metadata
RequestLogArgs(t, ms, id, userId, method, url, statusCode) ==
  <<id, userId, S("API_REQUEST"), url, ISOString(t, ms),
    <<W(method), W("request to")>> \o url, RequestMetadata(method, statusCode)>>

\* the logger's work after res.end: connect, submit CreateLog, log any
\* error to the console and go on
loggingMiddleware(ws, t, ms, id, userId, method, url, statusCode, fault) ==
  IF fault = "connect"
  THEN [ws |-> ws, err |-> MsgConnect, calls |-> <<"connectToContract">>]
  ELSE LET Done(tx) ==
             [ws |-> tx.ws, err |-> tx.err, calls |-> <<"connectToContract", "CreateLog">>]
       IN Done(submitTransaction(ws, t, "CreateLog",
                                 RequestLogArgs(t, ms, id, userId, method, url, statusCode),
                                 fault, EmptyText))

(***************************************************************************)
(* State                                                                   *)
(***************************************************************************)
VARIABLES
  ledger,    \* the world state: key -> stored document, or Nil
  now,       \* the clock, in seconds
  last,      \* the operation just run (name, inputs, outcome), or Idle
  accepted,  \* history: per id, the bodies of the CreateRecord requests that
             \* were answered with success and that id
  localStorage,  \* the browser's storage: recent_logs and
                 \* last_created_log_id, null while not set
  formCreated  \* history: the ids of the creates the form saw succeed, in
               \* order

vars == <<ledger, now, last, accepted, localStorage, formCreated>>

\* localStorage.getItem of a key that was never set
NotSet == JNull

\* no operation is waiting for its outcome to be taken
Idle == [op |-> "idle"]

Init ==
  /\ ledger = EmptyLedger
  /\ now = 0
  /\ last = Idle
  /\ accepted = [id \in GenIds |-> <<>>]
  /\ localStorage = [recent_logs |-> NotSet, last_created_log_id |-> NotSet]
  /\ formCreated = <<>>

Tick ==
  /\ last = Idle
  /\ now < MaxTime
  /\ now' = now + 1
  /\ UNCHANGED <<ledger, last, accepted, localStorage, formCreated>>

\* the caller takes the outcome of the operation; the next one can start
Return ==
  /\ last # Idle
  /\ last' = Idle
  /\ UNCHANGED <<ledger, now, accepted, localStorage, formCreated>>

\* the InitLedger transaction: invoked at deployment, and by any client
\* afterwards
InvokeInitLedger ==
  /\ last = Idle
  /\ \E stubFails \in BOOLEAN :
      \E tx \in {Invoke(ledger, now, "InitLedger", <<>>, stubFails, EmptyText)} :
        /\ ledger' = tx.ws
        /\ last' = [op |-> "InitLedger", err |-> tx.err]
        /\ UNCHANGED <<now, accepted, localStorage, formCreated>>

\* the CreateLog transaction submitted to the contract directly
InvokeCreateLog(CallArgs) ==
  /\ last = Idle
  /\ \E id \in Keys, a \in CallArgs, stubFails \in BOOLEAN :
      \E tx \in {Invoke(ledger, now, "CreateLog",
                        <<id, a.userId, a.action, a.resource, a.description,
                          a.metadata>>,
                        stubFails, EmptyText)} :
        /\ ledger' = tx.ws
        /\ last' = [op |-> "CreateLog", id |-> id, args |-> a, stubFails |-> stubFails,
                    present |-> ledger[id] # Nil, err |-> tx.err]
        /\ UNCHANGED <<now, accepted, localStorage, formCreated>>

\* the GetLogsByTimeRange transaction evaluated by a client of the contract
EvaluateTimeRange(Bounds) ==
  /\ last = Idle
  /\ \E startTime \in Bounds, endTime \in Bounds, stubFails \in BOOLEAN :
     \E nilText \in IF stubFails THEN {EmptyText} ELSE NilTexts :
      \E tx \in {Invoke(ledger, now, "GetLogsByTimeRange", <<startTime, endTime>>,
                        stubFails, nilText)} :
        /\ last' = [op |-> "GetLogsByTimeRange", startTime |-> startTime,
                    endTime |-> endTime, stubFails |-> stubFails, nilText |-> nilText,
                    err |-> tx.err, payload |-> tx.payload]
        /\ UNCHANGED <<ledger, now, accepted, localStorage, formCreated>>

\* a read of the state database, which holds the ledger's records
ReadIndex(op, arg, fault, result) ==
  /\ last = Idle
  /\ last' = [op |-> op, arg |-> arg, fault |-> fault, result |-> result]
  /\ UNCHANGED <<ledger, now, accepted, localStorage, formCreated>>

QueryLogsFromIndex ==
  \E fault \in IndexFaults :
    ReadIndex("queryLogsFromCouchDB", EmptyText, fault, queryLogsFromCouchDB(ledger, fault))

GetLogByIdFromIndex(IdArgs) ==
  \E id \in IdArgs, fault \in IndexFaults :
    ReadIndex("getLogByIdFromCouchDB", id, fault, getLogByIdFromCouchDB(ledger, id, fault))

GetLogsByActionFromIndex(Actions) ==
  \E action \in Actions, fault \in IndexFaults :
    ReadIndex("getLogsByActionFromCouchDB", action, fault,
              getLogsByActionFromCouchDB(ledger, action, fault))

\* POST /api/logs ; a request rejected by validation returns before the
\* id is generated and before the ledger is contacted
CreateRecord(Bodies, IdPool) ==
  /\ last = Idle
  /\ \E body \in Bodies :
      \E rejected \in {post(ledger, now, body, EmptyText, "connect").resp.status = 400} :
        \E logId \in IF rejected THEN {EmptyText} ELSE IdPool,
           fault \in IF rejected THEN {"none"} ELSE Faults :
          \E r \in {post(ledger, now, body, logId, fault)} :
            /\ Dispatch("POST", <<>>) = "post"
            /\ ledger' = r.ws
            /\ last' = [op |-> "CreateRecord", body |-> body, logId |-> logId,
                        fault |-> fault,
                        present |-> logId \in Keys /\ ledger[logId] # Nil,
                        calls |-> r.calls,
                        gateway |-> GatewayUse("post", fault, r.resp),
                        resp |-> r.resp]
            /\ accepted' = IF r.resp.success
                            THEN [accepted EXCEPT ![r.resp.logId] = Append(@, body)]
                            ELSE accepted
            /\ UNCHANGED <<now, localStorage, formCreated>>

\* the arguments POST / submits with CreateLog
CreateArgs(body, logId) ==
  <<logId, body.userId[2], body.action[2], body.resource[2],
    IF Truthy(body.description) THEN body.description[2] ELSE EmptyText,
    IF ~Truthy(body.metadata) THEN <<P("{"), P("}")>>
    ELSE IF TypeOf(body.metadata) = "string" THEN body.metadata[2]
    ELSE JSONStringify(body.metadata)>>

\* the keys a transaction reads while it is simulated: no key
ReadSet_None(fn, args) == {}

\* the keys a transaction reads while it is simulated: CreateLog reads its
\* id through LogExists
ReadSet(fn, args) == IF fn = "CreateLog" THEN {args[1]} \cap Keys ELSE {}

\* the commit refused a transaction whose reads are out of date
MsgConflict == "MVCC_READ_CONFLICT"

\* two POST / requests with valid bodies are in flight together; each
\* submitTransaction first simulates CreateLog and later commits it
StartCreates(Bodies, IdPool) ==
  /\ last = Idle
  /\ \E b1 \in Bodies, b2 \in Bodies, id1 \in IdPool, id2 \in IdPool :
       last' = [op |-> "Creates",
                reqs |-> [i \in {1, 2} |->
                           [body |-> IF i = 1 THEN b1 ELSE b2,
                            logId |-> IF i = 1 THEN id1 ELSE id2,
                            present |-> ledger[IF i = 1 THEN id1 ELSE id2] # Nil,
                            pc |-> "endorse", reads |-> <<>>, writes |-> <<>>,
                            resp |-> Failure(0, "", NoError)]],
                order |-> <<>>]
  /\ UNCHANGED <<ledger, now, accepted, localStorage, formCreated>>

\* the peer simulates request i's CreateLog on the world state of the moment
Endorse(i) ==
  /\ last # Idle
  /\ last.op = "Creates"
  /\ last.reqs[i].pc = "endorse"
  /\ \E args \in {CreateArgs(last.reqs[i].body, last.reqs[i].logId)} :
     \E tx \in {Invoke(ledger, now, "CreateLog", args, FALSE, EmptyText)} :
       last' = [last EXCEPT
                  !.reqs[i] =
                    IF tx.err # NoError
                    THEN [@ EXCEPT !.pc = "done",
                                   !.resp = Failure(500, "Failed to create log", tx.err)]
                    ELSE [@ EXCEPT !.pc = "commit",
                                   !.reads = [k \in ReadSet("CreateLog", args) |-> ledger[k]],
                                   !.writes = [k \in {j \in Keys : tx.ws[j] # ledger[j]} |->
                                                 tx.ws[k]]],
                  !.order = IF tx.err # NoError THEN Append(@, i) ELSE @]
  /\ UNCHANGED <<ledger, now, accepted, localStorage, formCreated>>

\* request i's transaction is ordered and validated: it is committed when
\* the keys it read are as it read them, and refused otherwise
Commit(i) ==
  /\ last # Idle
  /\ last.op = "Creates"
  /\ last.reqs[i].pc = "commit"
  /\ \E valid \in {\A k \in DOMAIN last.reqs[i].reads : ledger[k] = last.reqs[i].reads[k]} :
       /\ ledger' = IF valid
                    THEN [k \in Keys |-> IF k \in DOMAIN last.reqs[i].writes
                                         THEN last.reqs[i].writes[k] ELSE ledger[k]]
                    ELSE ledger
       /\ last' = [last EXCEPT
                     !.reqs[i].pc = "done",
                     !.reqs[i].resp =
                       IF valid
                       THEN Response(201, TRUE, "Log created successfully", NoError,
                                     JUndef, JUndef, last.reqs[i].logId)
                       ELSE Failure(500, "Failed to create log", MsgConflict),
                     !.order = Append(@, i)]
       /\ accepted' = IF valid
                      THEN [accepted EXCEPT ![last.reqs[i].logId] =
                              Append(@, last.reqs[i].body)]
                      ELSE accepted
       /\ UNCHANGED <<now, localStorage, formCreated>>

\* the response to an API request has ended and the request logger submits
\* its record; userId is the user-id header or 'anonymous'
LogRequest(Users, Urls, Statuses, IdPool, Clock) ==
  /\ last = Idle
  /\ \E id \in IdPool, userId \in Users, url \in Urls, statusCode \in Statuses,
        ms \in Clock, fault \in Faults :
      \E r \in {loggingMiddleware(ledger, now, ms, id, userId, "GET", url, statusCode,
                                  fault)} :
        /\ ledger' = r.ws
        /\ last' = [op |-> "ApiRequest", id |-> id, userId |-> userId, url |-> url,
                    statusCode |-> statusCode, ms |-> ms, fault |-> fault,
                    calls |-> r.calls, err |-> r.err]
        /\ UNCHANGED <<now, accepted, localStorage, formCreated>>

\* the four places that normalize the metadata of a record
Normalizers == {"processLogMetadata", "primary", "sweep", "index"}

\* a raw record: its id and its metadata member (absent when undefined)
RawRecord(id, metadata) ==
  IF metadata = JUndef THEN JObj(<< <<S("id"), JStr(id)>> >>)
  ELSE JObj(<< <<S("id"), JStr(id)>>, <<S("metadata"), metadata>> >>)

\* the record as the normalizer named by returns it
NormalizeBy(by, log) ==
  CASE by = "processLogMetadata" -> processLogMetadata(log)
    [] by = "primary" -> PrimaryMetadata(log)
    [] by = "sweep" -> SweepMetadata(log)
    [] by = "index" -> IndexLog(log, Field(log, "id"))

\* a raw record is normalized by every normalizer, and each result is
\* normalized again by the same normalizer
Normalize(Ids, Inputs) ==
  /\ last = Idle
  /\ \E id \in Ids, metadata \in Inputs :
      \E once \in {[by \in Normalizers |-> NormalizeBy(by, RawRecord(id, metadata))]} :
        last' = [op |-> "Normalize", id |-> id, raw |-> metadata, once |-> once,
                 twice |-> [by \in Normalizers |-> NormalizeBy(by, once[by])]]
  /\ UNCHANGED <<ledger, now, accepted, localStorage, formCreated>>

\* the handler the router selects for a GET request, run on its parameters
HandleGet(path, query, fault, nilText) ==
  LET h == Dispatch("GET", path)
  IN CASE h = "getById" -> getById(ledger, now, path[1], fault)
       [] h = "getByUser" -> getByUser(ledger, now, path[2], fault, nilText)
       [] h = "getByAction" -> getByAction(ledger, now, path[2], fault, nilText)
       [] h = "getByResource" -> getByResource(ledger, now, path[2], fault, nilText)
       [] h = "getByTimeRange" ->
            getByTimeRange(ledger, now, query.startTime, query.endTime, fault, nilText)
       [] OTHER -> Failure(404, "Not Found", NoError)

NoQuery == [startTime |-> JUndef, endTime |-> JUndef]

\* a GET request; nilText is drawn only by the requests that can meet a
\* nil result: a transaction that fails returns no result
Get(op, path, query, arg, NilSet) ==
  /\ last = Idle
  /\ \E fault \in Faults :
     \E nilText \in IF fault = "none" THEN NilSet ELSE {EmptyText} :
    /\ ledger' = ledger
    /\ \E resp \in {HandleGet(path, query, fault, nilText)} :
         last' = [op |-> op, arg |-> arg, query |-> query, fault |-> fault,
                  nilText |-> nilText, handler |-> Dispatch("GET", path),
                  stores |-> Stores(Dispatch("GET", path), resp),
                  gateway |-> GatewayUse(Dispatch("GET", path), fault, resp),
                  resp |-> resp]
    /\ UNCHANGED <<now, accepted, localStorage, formCreated>>

\* GET /api/logs/:id
GetRecord(IdArgs) == \E id \in IdArgs : Get("GetRecord", <<id>>, NoQuery, id, {EmptyText})

\* GET /api/logs/user/:userId
ListByUser(Users) == \E u \in Users : Get("ListByUser", <<S("user"), u>>, NoQuery, u, NilTexts)

\* GET /api/logs/action/:action
ListByAction(Actions) ==
  \E a \in Actions : Get("ListByAction", <<S("action"), a>>, NoQuery, a, NilTexts)

\* GET /api/logs/resource/:resource
ListByResource(Resources) ==
  \E r \in Resources : Get("ListByResource", <<S("resource"), r>>, NoQuery, r, NilTexts)

\* GET /api/logs/timerange?startTime=&endTime=
ListByTimeRange(Bounds) ==
  \E s \in Bounds, e \in Bounds :
    Get("ListByTimeRange", <<S("timerange")>>, [startTime |-> s, endTime |-> e],
        EmptyText, NilTexts)

\* GET /api/logs ; the sweep's inputs are drawn only when the full
\* enumeration did not answer
ListAll(QueryUserIds, Plans, Millis) ==
  /\ last = Idle
  /\ \E fault \in Faults :
     \E nilText \in IF fault = "none" THEN NilTexts ELSE {EmptyText} :
      \E swept \in {Len(getAll(ledger, now, 0, JUndef, fault, {}, nilText).calls) > 1} :
        \E ms \in IF swept THEN Millis ELSE {0},
           queryUserId \in IF swept THEN QueryUserIds ELSE {JUndef},
           failing \in IF swept THEN Plans ELSE {{}} :
          \E r \in {getAll(ledger, now, ms, queryUserId, fault, failing, nilText)} :
            /\ Dispatch("GET", <<>>) = "getAll"
            /\ ledger' = ledger
            /\ last' = [op |-> "ListAll", arg |-> queryUserId, ms |-> ms,
                        fault |-> fault, failing |-> failing, nilText |-> nilText,
                        calls |-> r.calls, disconnected |-> r.disconnected,
                        gateway |-> [obtained |-> fault # "connect",
                                     disconnected |-> r.disconnected],
                        stores |-> Stores("getAll", r.resp), resp |-> r.resp]
            /\ UNCHANGED <<now, accepted, localStorage, formCreated>>

(***************************************************************************)
(* The client: the logs page and its aggregator                            *)
(***************************************************************************)
\* new Date(timestamp): seconds and milliseconds, <<>> for an invalid date
Instant(x) ==
  IF x[1] = "string" /\ IsTs(x[2])
  THEN <<x[2][1][2][1], IF x[2][1][2][2] = NoFrac THEN 0 ELSE x[2][1][2][2]>>
  ELSE <<>>

\* new Date(a) < new Date(b); false when either date is invalid
Earlier(a, b) ==
  /\ a # <<>>
  /\ b # <<>>
  /\ a[1] < b[1] \/ (a[1] = b[1] /\ a[2] < b[2])

\* logs.sort((a, b) => new Date(b.timestamp) - new Date(a.timestamp)):
\* a stable sort, newest first
RECURSIVE SortNewestFirst(_, _)
SortNewestFirst(sorted, logs) ==
  IF Len(logs) = 0 THEN sorted
  ELSE LET Insert(log, older) ==
             LET Place(at) ==
                   SubSeq(sorted, 1, at - 1) \o <<log>> \o SubSeq(sorted, at, Len(sorted))
             IN Place(IF older = {} THEN Len(sorted) + 1
                      ELSE CHOOSE i \in older : \A j \in older : i <= j)
       IN SortNewestFirst(
            Insert(Head(logs),
                   {i \in 1..Len(sorted) :
                      Earlier(Instant(Field(sorted[i], "timestamp")),
                              Instant(Field(Head(logs), "timestamp")))}),
            Tail(logs))

\* uniqueLogMap[log.id] = log when the id is new or the log is newer
RECURSIVE UniqueLogMap(_, _)
UniqueLogMap(entries, logs) ==
  IF Len(logs) = 0 THEN entries
  ELSE LET Put(log, at) ==
             IF at = {} THEN Append(entries, log)
             ELSE IF \E i \in at : Earlier(Instant(Field(entries[i], "timestamp")),
                                           Instant(Field(log, "timestamp")))
             THEN [i \in 1..Len(entries) |-> IF i \in at THEN log ELSE entries[i]]
             ELSE entries
       IN UniqueLogMap(
            Put(Head(logs),
                {i \in 1..Len(entries) :
                   Field(entries[i], "id") = Field(Head(logs), "id")}),
            Tail(logs))

\* deduplicateLogs of the logs page
deduplicateLogs(logsArray) == SortNewestFirst(<<>>, UniqueLogMap(<<>>, logsArray))

\* the data of a response the aggregator builds or passes on
ClientResponse(success, logs, source) ==
  [success |-> success, logs |-> logs, source |-> source]

\* the paths the client requests under /api/logs
WorkingActionTypes ==
  <<S("LOGIN"), S("API_CALL"), S("PAGE_VISIT"), S("API_REQUEST"), S("TEST_LOG")>>
ClientPaths ==
  {<<>>} \cup {<<id>> : id \in GenIds}
  \cup {<<S("action"), WorkingActionTypes[i]>> : i \in 1..Len(WorkingActionTypes)}

\* api.get(path): the response of the backend to a GET of the client
ApiGet(path, fault, failing, nilText) ==
  IF path = <<>> THEN getAll(ledger, now, 0, JUndef, fault, failing, nilText).resp
  ELSE HandleGet(path, NoQuery, fault, nilText)

\* for (const logId of recentLogIds) { api.get(`/logs/${logId}`) ... };
\* api maps a path to the response of its request
RECURSIVE LogsById(_, _, _)
LogsById(api, ids, i) ==
  IF i > Len(ids) THEN <<>>
  ELSE (IF api[<<ids[i]>>].success /\ Truthy(api[<<ids[i]>>].log)
        THEN <<api[<<ids[i]>>].log>> ELSE <<>>)
       \o LogsById(api, ids, i + 1)

\* a value whose members cannot be read: x.id throws a TypeError
NoMembers(x) == x[1] \in {"null", "undefined"}

\* logs.forEach(log => { if (!allLogs.some(l => l.id === log.id)) allLogs.push(log) });
\* some() calls nothing on an empty allLogs, and ends the forEach by a
\* TypeError when the first existing log or the new log has no members
RECURSIVE AddNew(_, _)
AddNew(allLogs, logs) ==
  IF Len(logs) = 0 THEN allLogs
  ELSE IF Len(allLogs) > 0 /\ (NoMembers(allLogs[1]) \/ NoMembers(Head(logs)))
  THEN allLogs
  ELSE AddNew(IF \E i \in 1..Len(allLogs) :
                   Field(allLogs[i], "id") = Field(Head(logs), "id")
              THEN allLogs ELSE Append(allLogs, Head(logs)),
              Tail(logs))

\* for (const action of workingActionTypes) { api.get(`/logs/action/${action}`) ... }
RECURSIVE LogsByAction(_, _, _)
LogsByAction(api, allLogs, i) ==
  IF i > Len(WorkingActionTypes) THEN allLogs
  ELSE LET Got(resp) ==
             IF resp.success /\ resp.logs[1] = "array" THEN AddNew(allLogs, resp.logs[2])
             ELSE allLogs
       IN LogsByAction(api, Got(api[<<S("action"), WorkingActionTypes[i]>>]), i + 1)

\* getReliableLogs: GET /logs, else the recently created ids one by one,
\* else the known actions one by one; first is the response to GET /logs
\* and api the responses to the requests after it. The result is the
\* response returned and the paths requested, in order
getReliableLogs(recentLogIds, lastCreatedLogId, first, api) ==
  LET ids == IF /\ Len(lastCreatedLogId) > 0
                /\ ~\E i \in 1..Len(recentLogIds) : recentLogIds[i] = lastCreatedLogId
             THEN Append(recentLogIds, lastCreatedLogId) ELSE recentLogIds
      idPaths == [i \in 1..Len(ids) |-> <<ids[i]>>]
      actionPaths ==
        [i \in 1..Len(WorkingActionTypes) |-> <<S("action"), WorkingActionTypes[i]>>]
      ByAction(allLogs) ==
        [data |-> ClientResponse(TRUE, JArr(SortNewestFirst(<<>>, allLogs)),
                                 JStr(S("fallback"))),
         requests |-> <<<<>>>> \o idPaths \o actionPaths]
      ById(logs) ==
        IF Len(logs) > 0
        THEN [data |-> ClientResponse(TRUE, JArr(logs), JStr(S("direct-id-lookup"))),
              requests |-> <<<<>>>> \o idPaths]
        ELSE ByAction(LogsByAction(api, <<>>, 1))
  IN IF first.success /\ first.logs[1] = "array"
     THEN [data |-> ClientResponse(TRUE, first.logs, first.source),
           requests |-> <<<<>>>>]
     ELSE ById(LogsById(api, ids, 1))

\* twoMinutesAgo.setMinutes(twoMinutesAgo.getMinutes() - 2), in seconds
TwoMinutes == 120

\* the page drops the API_REQUEST logs of the last two minutes
RECURSIVE FilterOwnRequests(_)
FilterOwnRequests(logs) ==
  IF Len(logs) = 0 THEN <<>>
  ELSE (IF Field(Head(logs), "action") = JStr(S("API_REQUEST"))
           /\ ~Earlier(Instant(Field(Head(logs), "timestamp")), <<now - TwoMinutes, 0>>)
        THEN <<>> ELSE <<Head(logs)>>)
       \o FilterOwnRequests(Tail(logs))

MsgNoLogs == "Failed to retrieve logs from the blockchain. Please try again later."

\* fetchLogs of the logs page, freshly mounted: the logs it shows and its
\* error
fetchLogs(recentLogIds, lastCreatedLogId, first, api) ==
  LET Show(combinedLogs, reliableResponse) ==
        IF Len(combinedLogs) > 0
        THEN [logs |-> deduplicateLogs(FilterOwnRequests(combinedLogs)),
              error |-> NoError, reliableResponse |-> reliableResponse]
        ELSE [logs |-> <<>>, error |-> MsgNoLogs, reliableResponse |-> reliableResponse]
      Reliable(r) ==
        IF r.data.success /\ r.data.logs[1] = "array" /\ Len(r.data.logs[2]) > 0
        THEN Show(r.data.logs[2], r)
        ELSE Show(IF api[<<>>].success /\ api[<<>>].logs[1] = "array"
                  THEN api[<<>>].logs[2] ELSE <<>>,
                  r)
  IN Reliable(getReliableLogs(recentLogIds, lastCreatedLogId, first, api))

\* the logs page loads; recent_logs and last_created_log_id hold ids that
\* POST /api/logs returned to this client, recent_logs without repetition;
\* fault is the fault of the first request and later the fault of the
\* requests after it
FetchLogs(Plans) ==
  /\ last = Idle
  /\ \E fault \in Faults, later \in Faults, failing \in Plans :
     \E nilText \in IF "none" \in {fault, later} THEN NilTexts ELSE {EmptyText} :
     \E created \in SUBSET {id \in GenIds : accepted[id] # <<>>} :
     \E n \in {Cardinality(created)} :
     \E recentLogIds \in {f \in [1..n -> created] : \A i, j \in 1..n : f[i] = f[j] => i = j} :
     \E lastCreatedLogId \in {id \in GenIds : accepted[id] # <<>>} \cup {EmptyText} :
     \E responses \in {[f \in {fault, later} |->
                         [path \in ClientPaths |-> ApiGet(path, f, failing, nilText)]]} :
     \E page \in {fetchLogs(recentLogIds, lastCreatedLogId, responses[fault][<<>>],
                            responses[later])} :
       /\ last' = [op |-> "FetchLogs", fault |-> fault, later |-> later,
                   failing |-> failing, nilText |-> nilText,
                   recentLogIds |-> recentLogIds,
                   lastCreatedLogId |-> lastCreatedLogId,
                   first |-> responses[fault][<<>>],
                   reliable |-> page.reliableResponse.data,
                   requests |-> page.reliableResponse.requests,
                   logs |-> page.logs, error |-> page.error]
       /\ UNCHANGED <<ledger, now, accepted, localStorage, formCreated>>

(***************************************************************************)
(* The client: the two copies of the aggregator under every answer         *)
(***************************************************************************)
\* JSON.parse(localStorage.getItem('recent_logs') || '[]') as the replay of
\* part_005 uses it: the ids, or a throw (ok is FALSE) for text that is not
\* JSON and for JSON that is no array
CachedIds(storage) ==
  LET Ids(r) ==
        IF r.ok /\ r.val[1] = "array"
        THEN [ok |-> TRUE, ids |-> [i \in 1..Len(r.val[2]) |-> GoString(r.val[2][i])]]
        ELSE [ok |-> FALSE, ids |-> <<>>]
  IN IF ~Truthy(storage.recent_logs) THEN [ok |-> TRUE, ids |-> <<>>]
     ELSE Ids(JSONParse(storage.recent_logs[2]))

\* getReliableLogs of part_005 on the browser's storage: a throw while
\* reading the cache ends the replay step
getReliableLogsCached(storage, first, api) ==
  LET Cached(c) ==
        IF c.ok
        THEN getReliableLogs(c.ids, GoString(storage.last_created_log_id), first, api)
        ELSE getReliableLogs(<<>>, EmptyText, first, api)
  IN Cached(CachedIds(storage))

\* services/api.js: the ids written into getReliableLogs, and the actions it
\* expects among the logs
KnownLogIds ==
  << S("LOG323e6c552711"), S("LOGd03ec70d408d"), S("LOG6e5199df289b"),
     S("LOG84648fdcc0ce"), S("LOGe0e0c0491747"), S("LOG35346ca5d641"),
     S("LOG4a4a1ac4f544"), S("LOGbb00326fcacc"), S("LOG4501d9d1e1dd"),
     S("LOG22c95c98fd5f"), S("LOG1230c0b38339"), S("LOG8965f44a339a"),
     S("LOG105805336773") >>
CriticalActions ==
  {S("LOGIN"), S("LOGOUT"), S("CREATE"), S("UPDATE"), S("DELETE"), S("VIEW"), S("ERROR")}

\* getReliableLogs of services/api.js: GET /logs, returned when every
\* critical action is among its logs; else the logs of the browser's user
\* when there are any; else the known ids one by one
getReliableLogsKnownIds(userId, lastCreatedLogId, first, api) ==
  LET knownLogIds == IF Len(lastCreatedLogId) > 0
                     THEN Append(KnownLogIds, lastCreatedLogId) ELSE KnownLogIds
      userPath == <<S("user"), userId>>
      Direct(before) ==
        [data |-> ClientResponse(TRUE, JArr(LogsById(api, knownLogIds, 1)), JUndef),
         requests |-> before \o [i \in 1..Len(knownLogIds) |-> <<knownLogIds[i]>>]]
      ByUser(resp) ==
        IF /\ Len(userId) > 0
           /\ resp.logs[1] \in {"array", "string"}
           /\ Len(resp.logs[2]) > 0
        THEN [data |-> ClientResponse(resp.success, resp.logs, resp.source),
              requests |-> <<<<>>, userPath>>]
        ELSE Direct(IF Len(userId) > 0 THEN <<<<>>, userPath>> ELSE <<<<>>>>)
      AllPresent(logs) ==
        /\ \A i \in 1..Len(logs) : ~NoMembers(logs[i])
        /\ \A a \in CriticalActions :
             \E i \in 1..Len(logs) : Field(logs[i], "action") = JStr(a)
  IN IF first.success /\ first.logs[1] = "array" /\ AllPresent(first.logs[2])
     THEN [data |-> ClientResponse(first.success, first.logs, first.source),
           requests |-> <<<<>>>>]
     ELSE ByUser(api[userPath])

\* the paths the two copies request for the browser's user
AggregatorPaths(userId) ==
  ClientPaths \cup {<<KnownLogIds[i]>> : i \in 1..Len(KnownLogIds)}
  \cup {<<S("user"), userId>>}

\* the kind of request a path is
PathKind(path) ==
  IF path = <<>> THEN "all"
  ELSE IF Len(path) = 1 THEN "id"
  ELSE IF path[1] = S("user") THEN "user" ELSE "action"

\* getReliableLogs is called, in either copy: the backend answers every
\* request, but the requests of the kind answer.kind receive answer.body;
\* recent_logs holds the ids in cached, or text that is no list
GetReliableLogs(UserIds, Answers, CorruptTexts) ==
  /\ last = Idle
  /\ \E fault \in Faults, later \in {"none", "connect"}, userId \in UserIds,
        answer \in Answers :
     \E nilText \in IF fault = "none" THEN NilTexts ELSE {EmptyText} :
     \E cached \in {<<>>} \cup {<<id>> : id \in {k \in GenIds : accepted[k] # <<>>}} :
     \E storage \in
          {[recent_logs |-> IF cached = <<>> THEN NotSet
                            ELSE JStr(JSONStringify(JArr(<<JStr(cached[1])>>))),
            last_created_log_id |-> IF cached = <<>> THEN NotSet ELSE JStr(cached[1])]}
          \cup {[recent_logs |-> JStr(text), last_created_log_id |-> NotSet] :
                  text \in CorruptTexts} :
     \E api \in {[path \in AggregatorPaths(userId) |->
                    IF PathKind(path) = answer.kind THEN answer.body
                    ELSE ApiGet(path, IF path = <<>> THEN fault ELSE later, {},
                                nilText)]} :
       /\ last' = [op |-> "GetReliableLogs", fault |-> fault, later |-> later,
                   nilText |-> nilText, userId |-> userId, answer |-> answer,
                   storage |-> storage, first |-> api[<<>>],
                   byCategory |-> getReliableLogsCached(storage, api[<<>>], api),
                   byKnownIds |->
                     getReliableLogsKnownIds(userId,
                                             GoString(storage.last_created_log_id),
                                             api[<<>>], api)]
       /\ UNCHANGED <<ledger, now, accepted, localStorage, formCreated>>

(***************************************************************************)
(* The client: the create form and the ids it remembers                    *)
(***************************************************************************)
\* the length the form keeps recent_logs to
MaxRecent == 10

\* recentLogs.includes(logId)
Includes(recentLogs, logId) == \E i \in 1..Len(recentLogs) : recentLogs[i] = JStr(logId)

\* the form's bookkeeping with the list never cut
handleSubmit_KeepAll(storage, response) ==
  IF response.success /\ Len(response.logId) > 0
  THEN LET Remember(recentLogs) ==
             IF Includes(recentLogs, response.logId) THEN storage.recent_logs
             ELSE JStr(JSONStringify(JArr(Append(recentLogs, JStr(response.logId)))))
       IN [last_created_log_id |-> JStr(response.logId),
           recent_logs |->
             Remember(IF Truthy(storage.recent_logs)
                      THEN JSONParse(storage.recent_logs[2]).val[2] ELSE <<>>)]
  ELSE storage

\* handleSubmit of the create form, from the response on: a success with a
\* logId is remembered in last_created_log_id and appended to recent_logs,
\* which is cut to its last MaxRecent ids; anything else throws and the
\* storage is left as it was
handleSubmit(storage, response) ==
  IF response.success /\ Len(response.logId) > 0
  THEN LET Keep(pushed) ==
             IF Len(pushed) > MaxRecent
             THEN SubSeq(pushed, Len(pushed) - MaxRecent + 1, Len(pushed))
             ELSE pushed
           Remember(recentLogs) ==
             IF Includes(recentLogs, response.logId) THEN storage.recent_logs
             ELSE JStr(JSONStringify(JArr(Keep(Append(recentLogs,
                                                      JStr(response.logId))))))
       IN [last_created_log_id |-> JStr(response.logId),
           recent_logs |->
             Remember(IF Truthy(storage.recent_logs)
                      THEN JSONParse(storage.recent_logs[2]).val[2] ELSE <<>>)]
  ELSE storage

\* the form's own checks: the required fields, and metadata that is JSON
FormError(formData) ==
  IF ~Truthy(formData.userId) \/ ~Truthy(formData.action) \/ ~Truthy(formData.resource)
  THEN "Please fill in all required fields"
  ELSE IF Truthy(formData.metadata) /\ ~JSONParse(formData.metadata[2]).ok
  THEN "Invalid JSON in metadata field"
  ELSE NoError

\* the id POST /api/logs generates for the n-th create it accepts: an id
\* the ledger does not hold yet
FormId(n) == <<W("LOG"), Tok("hex", n)>>

\* what POST /api/logs can answer to a body the form sends
FormResponses(logId) ==
  { Response(201, TRUE, "Log formCreated successfully", NoError, JUndef, JUndef, logId),
    Failure(500, "Failed to create log", MsgConnect),
    Failure(500, "Failed to create log", MsgExists) }

\* the user submits the create form
SubmitForm(Forms, MaxCreated) ==
  /\ last = Idle
  /\ \E formData \in Forms :
      \E response \in IF FormError(formData) = NoError
                      THEN {r \in FormResponses(FormId(Len(formCreated) + 1)) :
                              r.success => Len(formCreated) < MaxCreated}
                      ELSE {Failure(0, "", NoError)} :
        /\ localStorage' = handleSubmit(localStorage, response)
        /\ formCreated' = IF response.success THEN Append(formCreated, response.logId)
                      ELSE formCreated
        /\ last' = [op |-> "SubmitForm", formData |-> formData,
                    sent |-> FormError(formData) = NoError, response |-> response,
                    before |-> localStorage]
  /\ UNCHANGED <<ledger, now, accepted>>

(***************************************************************************)
(* Inputs                                                                  *)
(***************************************************************************)
Body(u, a, r, d, m) ==
  [userId |-> u, action |-> a, resource |-> r, description |-> d, metadata |-> m]

\* a required field is missing or empty
Missing(x) == x = JUndef \/ x = JNull \/ x = JStr(EmptyText)

\* unparseable metadata text, as the request logger writes it
RawText == <<W("GET"), W("/api")>>

\* request bodies: two valid events and one body per validation rule
Bodies ==
  { Body(JStr(S("user1")), JStr(S("VISIT")), JStr(S("/home")), JStr(S("d")), JUndef),
    Body(JStr(S("u2")), JStr(S("LOGIN")), JStr(S("/api")), JUndef, EmptyObj),
    Body(JUndef, JStr(S("VISIT")), JStr(S("/home")), JUndef, JUndef),
    Body(JStr(S("user1")), JStr(EmptyText), JStr(S("/home")), JUndef, JUndef),
    Body(JStr(S("user1")), JStr(S("VISIT")), JUndef, JUndef, JUndef),
    Body(JStr(S("user1")), JStr(S("VISIT")), JStr(S("/home")), JUndef, JStr(RawText)) }

\* arguments of a CreateLog transaction submitted directly
DirectArgs ==
  { [userId |-> S("u2"), action |-> S("VISIT"), resource |-> S("/home"),
     description |-> EmptyText, metadata |-> EmptyText],
    [userId |-> S("user1"), action |-> S("LOGIN"), resource |-> S("/api"),
     description |-> S("d"), metadata |-> RawText] }

QueryUsers == {S("user1"), S("u2"), S("nobody")}
QueryActions == {S("VISIT"), S("LOGIN"), S("NO_SUCH_ACTION")}
QueryResources == {S("/home"), S("/api"), S("none")}
QueryBounds == {JUndef, JStr(S("yesterday")), JStr(RFC3339(0)), JStr(RFC3339(MaxTime))}

\* the sub-queries that fail during one sweep; with NoMessage, what they
\* throw has no message text
SweepPlans ==
  { {}, {"GetLogsByTimeRange"}, {"GetLogsByAction"}, {"GetLogsByResource"},
    {"GetLogsByUser"},
    {"GetLogsByTimeRange", "GetLogsByAction", "GetLogsByResource", "GetLogsByUser"},
    {"GetLogsByTimeRange", NoMessage}, {"GetLogsByAction", NoMessage},
    {"GetLogsByResource", NoMessage}, {"GetLogsByUser", NoMessage} }
\* the milliseconds of the request's clock reading
Millis == {0, 999}

Next ==
  \/ Tick
  \/ Return
  \/ InvokeInitLedger
  \/ CreateRecord(Bodies, GenIds)
  \/ GetRecord(Keys)
  \/ ListByUser(QueryUsers)
  \/ ListByAction(QueryActions)
  \/ ListByResource(QueryResources)
  \/ ListByTimeRange(QueryBounds)

Spec == Init /\ [][Next]_vars

(***************************************************************************)
(* The contract invoked directly: transactions submitted by any client     *)
(***************************************************************************)
NextContract ==
  \/ Tick
  \/ Return
  \/ InvokeInitLedger
  \/ InvokeCreateLog(DirectArgs)
  \/ GetRecord(Keys)

SpecContract == Init /\ [][NextContract]_vars

(***************************************************************************)
(* The time-range query of the contract, its bounds written as the         *)
(* contract writes timestamps and as the gateway's sweep writes them       *)
(***************************************************************************)
RangeBounds ==
  {RFC3339(t) : t \in 0..MaxTime} \cup {ISOString(t, ms) : t \in 0..MaxTime, ms \in Millis}

RangeArgs ==
  { [userId |-> S("u2"), action |-> S("VISIT"), resource |-> S("/home"),
     description |-> EmptyText, metadata |-> EmptyText] }

NextRange ==
  \/ Tick
  \/ Return
  \/ InvokeInitLedger
  \/ InvokeCreateLog(RangeArgs)
  \/ EvaluateTimeRange(RangeBounds)

SpecRange == Init /\ [][NextRange]_vars

(***************************************************************************)
(* The readers of the state database over the ledger's records            *)
(***************************************************************************)
NextIndex ==
  \/ Tick
  \/ Return
  \/ InvokeInitLedger
  \/ InvokeCreateLog(DirectArgs)
  \/ QueryLogsFromIndex
  \/ GetLogByIdFromIndex(Keys \cup {EmptyText})
  \/ GetLogsByActionFromIndex(QueryActions)

SpecIndex == Init /\ [][NextIndex]_vars

(***************************************************************************)
(* Two creates in flight together                                          *)
(***************************************************************************)
\* the request bodies that pass the validation of POST /
ValidBodies ==
  {b \in Bodies : post(EmptyLedger, 0, b, EmptyText, "connect").resp.status # 400}

NextCreates ==
  \/ Tick
  \/ Return
  \/ StartCreates(ValidBodies, GenIds)
  \/ \E i \in {1, 2} : Endorse(i)
  \/ \E i \in {1, 2} : Commit(i)

SpecCreates == Init /\ [][NextCreates]_vars

(***************************************************************************)
(* The request logger behind every API request                             *)
(***************************************************************************)
RequestUrls == {<<W("/api/logs")>>, <<W("/api/logs/user/u2")>>, <<W("/health")>>}

NextLogging ==
  \/ Tick
  \/ Return
  \/ InvokeInitLedger
  \/ LogRequest({S("anonymous"), S("u2")}, RequestUrls, {200, 404, 500}, GenIds, Millis)

SpecLogging == Init /\ [][NextLogging]_vars

(***************************************************************************)
(* The all-records query over a ledger of the deployment's record and one  *)
(* created record                                                          *)
(***************************************************************************)
NextAll ==
  \/ Tick
  \/ Return
  \/ InvokeInitLedger
  \/ CreateRecord({b \in Bodies : ~Missing(b.userId) /\ ~Missing(b.action)}, {GenId(1)})
  \/ ListAll({JUndef, JStr(S("u2"))}, SweepPlans, Millis)

SpecAll == Init /\ [][NextAll]_vars

(***************************************************************************)
(* Metadata inputs: one event, every shape of metadata and description     *)
(***************************************************************************)
ObjA == JObj(<< <<S("a"), JNum(1)>> >>)

MetaInputs ==
  { JUndef, JNull, JNum(0), JStr(EmptyText), EmptyObj, ObjA, JArr(<<JNum(1)>>), JNum(5),
    JStr(JSONStringify(ObjA)), JStr(<<Num(5)>>), JStr(<<Num(0)>>), JStr(<<Lit("null")>>),
    JStr(<<P("["), Num(1), P("]")>>), JStr(<<Q(S("x"))>>),
    JStr(<<Q(JSONStringify(ObjA))>>), JStr(RawText) }

MetaBodies ==
  { Body(JStr(S("user1")), JStr(S("VISIT")), JStr(S("/home")), d, m) :
      d \in {JUndef, JStr(S("d"))}, m \in MetaInputs }

NextMeta ==
  \/ Return
  \/ CreateRecord(MetaBodies, {GenId(1)})
  \/ GetRecord({GenId(1)})
  \/ ListByUser({S("user1")})
  \/ ListByAction({S("VISIT")})
  \/ ListByResource({S("/home")})
  \/ ListAll({JUndef}, {{}}, {0})

SpecMeta == Init /\ [][NextMeta]_vars

(***************************************************************************)
(* The normalizers over every shape of raw metadata                        *)
(***************************************************************************)
NormInputs ==
  MetaInputs \cup
  { JBool(FALSE), JBool(TRUE), JStr(<<Lit("false")>>), JStr(<<Q(EmptyText)>>),
    JStr(JSONStringify(EmptyObj)), JStr(<<Q(RawText)>>) }

NextNorm ==
  \/ Tick
  \/ Return
  \/ Normalize(Keys, NormInputs)

SpecNorm == Init /\ [][NextNorm]_vars

(***************************************************************************)
(* The create form, submitted more often than recent_logs is long          *)
(***************************************************************************)
MaxSubmits == 12

FormInputs ==
  { Body(JStr(S("user1")), JStr(S("VISIT")), JStr(S("/home")), JStr(S("d")),
         JStr(EmptyText)),
    Body(JStr(S("u2")), JStr(S("LOGIN")), JStr(S("/api")), JStr(EmptyText),
         JStr(JSONStringify(ObjA))),
    Body(JStr(EmptyText), JStr(S("VISIT")), JStr(S("/home")), JStr(EmptyText),
         JStr(EmptyText)),
    Body(JStr(S("user1")), JStr(S("VISIT")), JStr(S("/home")), JStr(EmptyText),
         JStr(RawText)) }

NextForm ==
  \/ Tick
  \/ Return
  \/ SubmitForm(FormInputs, MaxSubmits)

SpecForm == Init /\ [][NextForm]_vars

(***************************************************************************)
(* The logs page over a ledger whose records' fields hold a double quote   *)
(***************************************************************************)
\* a userId that reads, inside the query text, as the end of the userId
\* and one more condition: user1","resource":"/home
QuotedUser ==
  S("user1") \o <<DQ, P(","), DQ, W("resource"), DQ, P(":"), DQ>> \o S("/home")

ClientBodies ==
  { Body(JStr(S("u2")), JStr(S("LOGIN")), JStr(S("/api")), JUndef, EmptyObj),
    Body(JStr(QuotedUser), JStr(S("LOGIN")), JStr(S("/api")), JUndef, JUndef) }

NextClient ==
  \/ Tick
  \/ Return
  \/ InvokeInitLedger
  \/ CreateRecord(ClientBodies, {GenId(1)})
  \/ ListByUser({S("user1"), QuotedUser})
  \/ ListAll({JUndef}, {{}}, {0})
  \/ FetchLogs({{}, {"GetLogsByUser"}})

SpecClient == Init /\ [][NextClient]_vars

(***************************************************************************)
(* The aggregator against the backend and against malformed answers        *)
(***************************************************************************)
\* one record as a response body carries it
BodyLog == JObj(<< <<S("id"), JStr(InitId)>>, <<S("action"), JStr(S("LOGIN"))>> >>)

\* bodies the backend does not send: no JSON at all, logs without the
\* success flag, logs that are text, and logs holding null
MalformedBodies ==
  { Response(200, FALSE, "", NoError, JUndef, JUndef, EmptyText),
    Response(200, FALSE, "", NoError, JArr(<<BodyLog>>), JUndef, EmptyText),
    Response(200, TRUE, "", NoError, JStr(S("<html>")), JUndef, EmptyText),
    Response(200, TRUE, "", NoError, JArr(<<JNull, BodyLog>>), JNull, EmptyText) }

Answers ==
  {[kind |-> "none", body |-> Failure(0, "", NoError)]}
  \cup {[kind |-> k, body |-> b] : k \in {"all", "user", "action"}, b \in MalformedBodies}

\* recent_logs that is not JSON, and that is JSON but no array
CorruptTexts == {RawText, JSONStringify(ObjA)}

NextReliable ==
  \/ Return
  \/ InvokeInitLedger
  \/ CreateRecord(ClientBodies, {GenId(1)})
  \/ GetReliableLogs({S("user1"), S("nobody")}, Answers, CorruptTexts)

SpecReliable == Init /\ [][NextReliable]_vars

(***************************************************************************)
(* Properties                                                              *)
(***************************************************************************)
\* the LogEvent stored under key k
Stored(k) == GoUnmarshal(ledger[k])
PresentKeys == {k \in Keys : ledger[k] # Nil}

\* the returned records as (id, userId, action, resource, timestamp,
\* description) tuples
EventOf(log) ==
  <<Field(log, "id"), Field(log, "userId"), Field(log, "action"),
    Field(log, "resource"), Field(log, "timestamp"), Field(log, "description")>>
StoredEvent(k) ==
  <<JStr(Stored(k).ID), JStr(Stored(k).UserID), JStr(Stored(k).Action),
    JStr(Stored(k).Resource), JStr(Stored(k).Timestamp), JStr(Stored(k).Description)>>
ReturnedEvents(logs) == {EventOf(logs[2][i]) : i \in 1..Len(logs[2])}

ListOps == {"ListByUser", "ListByAction", "ListByResource", "ListByTimeRange", "ListAll"}
ReadOps == ListOps \cup {"GetRecord"}

\* LedgerUnavailable: the connection or the state access failed
Unavailable == {MsgConnect, MsgWorldState, MsgQuery, MsgPutState}

\* C1: a record once stored under an id is never removed and never
\* changes, whatever ledger operation runs next.
C1_RecordsImmutable ==
  [][\A k \in Keys : ledger[k] # Nil => ledger'[k] = ledger[k]]_vars

\* C2: a CreateLog whose id is present fails with AlreadyExists and leaves
\* the ledger as it was; a CreateLog whose id is absent stores a record with
\* exactly the supplied id, userId, action, resource, description and
\* metadata text, and touches no other key.
C2_PutContract ==
  [][(last = Idle /\ last'.op = "CreateLog" /\ ~last'.stubFails) =>
       IF ledger[last'.id] # Nil
       THEN last'.err = MsgExists /\ ledger' = ledger
       ELSE /\ last'.err = NoError
            /\ ledger'[last'.id] # Nil
            /\ LET log == GoUnmarshal(ledger'[last'.id])
               IN /\ log.ID = last'.id
                  /\ log.UserID = last'.args.userId
                  /\ log.Action = last'.args.action
                  /\ log.Resource = last'.args.resource
                  /\ log.Description = last'.args.description
                  /\ log.Metadata = last'.args.metadata
            /\ \A k \in Keys \ {last'.id} : ledger'[k] = ledger[k]]_vars

\* a CreateLog on a present id was refused while another key held a record
C2_Witness ==
  /\ last.op = "CreateLog"
  /\ last.present
  /\ last.err = MsgExists
  /\ \E k \in Keys \ {last.id} : ledger[k] # Nil

\* C3: the ids returned by successful CreateRecord calls are pairwise
\* distinct, and a call whose generated id is already in the ledger does not
\* succeed: it fails with the contract's already-exists error.
C3_UniqueIds ==
  /\ \A id \in GenIds : Len(accepted[id]) <= 1
  /\ (last.op = "CreateRecord" /\ last.present) =>
       /\ ~last.resp.success
       /\ last.fault = "none" => last.resp.error = MsgExists

C3_Witness ==
  /\ last.op = "CreateRecord"
  /\ last.present
  /\ last.resp.error = MsgExists
  /\ \A id \in GenIds : Len(accepted[id]) = 1

\* C4: GetRecord of an id returned by CreateRecord(u,a,r,d,m) returns
\* userId u, action a, resource r, description d (the empty string when d
\* is absent) and as metadata the normalized form of m, which is an object.
C4_RoundTrip ==
  \A id \in GenIds : \A i \in 1..Len(accepted[id]) :
    (last.op = "GetRecord" /\ last.arg = id /\ last.resp.success) =>
      LET b == accepted[id][i]
          log == last.resp.log
      IN /\ Field(log, "id") = JStr(id)
         /\ Field(log, "userId") = b.userId
         /\ Field(log, "action") = b.action
         /\ Field(log, "resource") = b.resource
         /\ Field(log, "description") =
              (IF Truthy(b.description) THEN b.description ELSE JStr(EmptyText))
         /\ Field(log, "metadata") =
              Field(processLogMetadata(JObj(<< <<S("metadata"), b.metadata>> >>)),
                    "metadata")
         /\ IsPlainObject(Field(log, "metadata"))

\* C5: every record returned by a read path has an object as metadata.
C5_MetadataIsObject ==
  (last.op \in ReadOps /\ last.resp.success) =>
    /\ last.resp.log # JUndef => IsPlainObject(Field(last.resp.log, "metadata"))
    /\ last.resp.logs # JUndef =>
         \A i \in 1..Len(last.resp.logs[2]) :
           IsPlainObject(Field(last.resp.logs[2][i], "metadata"))

\* metadata was provided as text that is not JSON
BadMetadata(m) == m[1] = "string" /\ Len(m[2]) > 0 /\ ~JSONParse(m[2]).ok
InvalidBody(b) ==
  Missing(b.userId) \/ Missing(b.action) \/ Missing(b.resource) \/ BadMetadata(b.metadata)

\* C6: a CreateRecord with an empty or missing userId, action or resource,
\* or with metadata text that is not JSON, is answered 400, makes no call on
\* the ledger and leaves the ledger as it was.
C6_ValidationNoLedger ==
  [][(last = Idle /\ last'.op = "CreateRecord" /\ InvalidBody(last'.body)) =>
       /\ last'.resp.status = 400
       /\ ~last'.resp.success
       /\ last'.calls = <<>>
       /\ ledger' = ledger]_vars

C6_Witness ==
  /\ last.op = "CreateRecord"
  /\ BadMetadata(last.body.metadata)
  /\ last.resp.status = 400
  /\ PresentKeys # {}

\* C7: GetRecord on an absent id reports not-found, a CreateRecord id
\* collision reports already-exists, a failed connection or state access
\* reports the ledger's failure; the three reports differ from each other.
C7_ErrorKinds ==
  /\ (last.op = "GetRecord" /\ last.fault = "none" /\ ledger[last.arg] = Nil) =>
       ~last.resp.success /\ last.resp.error = MsgNotExist
  /\ (last.op = "GetRecord" /\ last.fault # "none") =>
       ~last.resp.success /\ last.resp.error \in Unavailable
  /\ (last.op = "CreateRecord" /\ last.fault = "none" /\ last.present) =>
       ~last.resp.success /\ last.resp.error = MsgExists
  /\ (last.op = "CreateRecord" /\ last.fault # "none") =>
       ~last.resp.success /\ last.resp.error \in Unavailable
  /\ MsgNotExist # MsgExists
  /\ {MsgNotExist, MsgExists} \cap Unavailable = {}

C7_Witness ==
  /\ last.op = "GetRecord"
  /\ last.fault = "none"
  /\ last.resp.error = MsgNotExist
  /\ PresentKeys # {}

\* C8: ListByAction for an action no stored record has, with the ledger
\* reachable, succeeds with the empty list.
C8_UnusedActionEmptyList ==
  (/\ last.op = "ListByAction"
   /\ last.fault = "none"
   /\ \A k \in PresentKeys : Stored(k).Action # last.arg) =>
    last.resp.success /\ last.resp.logs = JArr(<<>>)

\* C9: a list query never ends in a failure because of the store: every
\* response other than a validation error is a success.
C9_ListsNeverFail ==
  (last.op \in ListOps /\ last.resp.status # 400) => last.resp.success

\* C10: with the index out of the way, ListByUser, ListByAction and
\* ListByTimeRange return exactly the ledger's matching records.
C10_LedgerMatches ==
  /\ (last.op = "ListByUser" /\ last.fault = "none") =>
       /\ last.resp.success
       /\ ReturnedEvents(last.resp.logs) =
            {StoredEvent(k) : k \in {j \in PresentKeys : Stored(j).UserID = last.arg}}
  /\ (last.op = "ListByAction" /\ last.fault = "none") =>
       /\ last.resp.success
       /\ ReturnedEvents(last.resp.logs) =
            {StoredEvent(k) : k \in {j \in PresentKeys : Stored(j).Action = last.arg}}
  /\ (/\ last.op = "ListByTimeRange"
      /\ last.fault = "none"
      /\ Truthy(last.query.startTime)
      /\ Truthy(last.query.endTime)) =>
       /\ last.resp.success
       /\ ReturnedEvents(last.resp.logs) =
            {StoredEvent(k) : k \in
               {j \in PresentKeys :
                  /\ TextLE(last.query.startTime[2], Stored(j).Timestamp)
                  /\ TextLE(Stored(j).Timestamp, last.query.endTime[2])}}

\* C11: every read contacts the secondary index before the ledger, and
\* every successful read response is tagged source=index or source=ledger.
C11_IndexFirstTagged ==
  (last.op \in ReadOps /\ last.resp.success) =>
    /\ last.stores # <<>>
    /\ last.stores[1] = "index"
    /\ last.resp.source \in {JStr(S("index")), JStr(S("ledger"))}

\* the time-range query, every known action and every known resource
\* were queried
SweepIssued(calls) ==
  /\ \E i \in 1..Len(calls) : calls[i][1] = "GetLogsByTimeRange"
  /\ \A a \in 1..Len(KnownActions) :
       \E i \in 1..Len(calls) : calls[i] = <<"GetLogsByAction", KnownActions[a]>>
  /\ \A r \in 1..Len(KnownResources) :
       \E i \in 1..Len(calls) : calls[i] = <<"GetLogsByResource", KnownResources[r]>>

\* the full enumeration answered with no text or with text that is not JSON
EnumerationUnparseable ==
  \E result \in {evaluateTransaction(ledger, now, "GetAllLogs", <<>>, last.fault,
                                     last.nilText)} :
    result.err = NoError /\ ~JSONParse(result.payload).ok

\* C12: a ListAll that returns the empty list has issued the sweep's
\* sub-queries first, and a full enumeration whose response is empty or
\* unparseable is followed by the sweep, not by an immediate return.
C12_SweepBeforeEmpty ==
  (last.op = "ListAll" /\ last.fault = "none") =>
    /\ (last.resp.success /\ last.resp.logs = JArr(<<>>)) => SweepIssued(last.calls)
    /\ EnumerationUnparseable => SweepIssued(last.calls)

\* no two entries of a list have the same id
UniqueIds(logs) ==
  \A i, j \in 1..Len(logs) : Field(logs[i], "id") = Field(logs[j], "id") => i = j

\* C13: the list ListAll returns and the list the logs page shows after
\* getReliableLogs and its own merge hold at most one record per id,
\* whatever overlapping records the sources and sweep passes return.
C13_OneRecordPerId ==
  /\ (last.op = "ListAll" /\ last.resp.success) => UniqueIds(last.resp.logs[2])
  /\ last.op = "FetchLogs" => UniqueIds(last.logs)

\* the sweep collected the deployment's record under two discovered users
C13_Witness ==
  /\ last.op = "ListAll"
  /\ last.resp.success
  /\ \E i \in 1..Len(last.calls) : last.calls[i] = <<"GetLogsByUser", QuotedUser>>
  /\ \E i \in 1..Len(last.calls) : last.calls[i] = <<"GetLogsByUser", S("user1")>>
  /\ Len(last.resp.logs[2]) = 1

\* no entry of the list is older than the entry after it
NewestFirst(logs) ==
  \A i \in 1..(Len(logs) - 1) :
    ~Earlier(Instant(Field(logs[i], "timestamp")), Instant(Field(logs[i + 1], "timestamp")))

\* C14: the list ListAll returns is ordered by timestamp, newest first, on
\* the full-enumeration path and on the sweep path.
C14_ListAllNewestFirst ==
  (last.op = "ListAll" /\ last.resp.success) => NewestFirst(last.resp.logs[2])

\* the stored records whose member field is the text value
Matching(field, value) ==
  {k \in PresentKeys : Field(ledger[k], field) = JStr(value)}

\* C15: a query by userId, action or resource returns exactly the ledger's
\* records whose field equals the value, for every value taken as opaque
\* text (a double quote included), and ListAll after n accepted creates on
\* a ledger with no other write returns exactly those n records.
C15_QueryByExact ==
  /\ (last.op = "ListByUser" /\ last.fault = "none") =>
       /\ last.resp.success
       /\ ReturnedEvents(last.resp.logs) = {StoredEvent(k) : k \in Matching("userId", last.arg)}
  /\ (last.op = "ListByAction" /\ last.fault = "none") =>
       /\ last.resp.success
       /\ ReturnedEvents(last.resp.logs) = {StoredEvent(k) : k \in Matching("action", last.arg)}
  /\ (last.op = "ListByResource" /\ last.fault = "none") =>
       /\ last.resp.success
       /\ ReturnedEvents(last.resp.logs) =
            {StoredEvent(k) : k \in Matching("resource", last.arg)}
  /\ (last.op = "ListAll" /\ last.fault = "none" /\ ledger[InitId] = Nil) =>
       /\ last.resp.success
       /\ ReturnedEvents(last.resp.logs) = {StoredEvent(k) : k \in PresentKeys}
       /\ Len(last.resp.logs[2]) = Cardinality({id \in GenIds : accepted[id] # <<>>})

\* the records of the payload of the last time-range query
TimeRangeRows ==
  LET Logs(v) == IF v[1] = "array" THEN v[2] ELSE <<>>
  IN Logs(safeParseJSON(last.payload))

\* the stored records whose instant is within the bounds of the last
\* time-range query, the bounds included
InRange ==
  {k \in PresentKeys :
     /\ ~Earlier(Instant(JStr(Stored(k).Timestamp)), Instant(JStr(last.startTime)))
     /\ ~Earlier(Instant(JStr(last.endTime)), Instant(JStr(Stored(k).Timestamp)))}

\* C16: the time-range query returns every record whose timestamp T has
\* start <= T <= end, so a record with timestamp T is returned for the
\* range (T, T), and returns no record outside the range.
C16_TimeRangeInclusive ==
  (last.op = "GetLogsByTimeRange" /\ last.err = NoError) =>
    ReturnedEvents(JArr(TimeRangeRows)) = {StoredEvent(k) : k \in InRange}

\* a bound of a time-range request that is missing or is no instant
BadBound(b) == ~Truthy(b) \/ Instant(b) = <<>>

\* C17: ListByTimeRange with a missing or unparseable bound is answered
\* with a validation error and contacts no store.
C17_BadBoundRejected ==
  (/\ last.op = "ListByTimeRange"
   /\ BadBound(last.query.startTime) \/ BadBound(last.query.endTime)) =>
    last.resp.status = 400 /\ last.stores = <<>>

IndexOps == {"queryLogsFromCouchDB", "getLogByIdFromCouchDB", "getLogsByActionFromCouchDB"}

\* the database answered the last read and held no document for it
NoMatch ==
  /\ last.fault = "none"
  /\ CASE last.op = "queryLogsFromCouchDB" -> PresentKeys = {}
       [] last.op = "getLogByIdFromCouchDB" -> last.arg \notin PresentKeys
       [] last.op = "getLogsByActionFromCouchDB" -> Matching("action", last.arg) = {}

\* C18: each reader of the secondary index reports no matching documents,
\* a document or database that is not found, and a connection or query
\* error with one and the same miss value.
C18_UniformMiss ==
  (last.op \in IndexOps /\ (NoMatch \/ last.fault # "none")) => last.result = JNull

\* the record stored under request r's id is the record of r's body
HoldsRecordOf(r) ==
  /\ ledger[r.logId] # Nil
  /\ Stored(r.logId).ID = r.logId
  /\ JStr(Stored(r.logId).UserID) = r.body.userId
  /\ JStr(Stored(r.logId).Action) = r.body.action
  /\ JStr(Stored(r.logId).Resource) = r.body.resource
  /\ Stored(r.logId).Metadata = CreateArgs(r.body, r.logId)[6]

\* C19: of two creates in flight together, on ids the ledger did not hold,
\* both succeed and both records are stored when the ids differ, whatever
\* the order of completion; when the ids are the same at most one succeeds
\* and the ledger holds the record of the one that succeeded.
C19_ConcurrentCreates ==
  (/\ last.op = "Creates"
   /\ \A i \in {1, 2} : last.reqs[i].pc = "done" /\ ~last.reqs[i].present) =>
    IF last.reqs[1].logId # last.reqs[2].logId
    THEN \A i \in {1, 2} : last.reqs[i].resp.success /\ HoldsRecordOf(last.reqs[i])
    ELSE /\ ~(last.reqs[1].resp.success /\ last.reqs[2].resp.success)
         /\ \A i \in {1, 2} : last.reqs[i].resp.success => HoldsRecordOf(last.reqs[i])

\* two creates with the same id and different bodies were simulated before
\* either was committed, and the second one was committed
C19_Witness ==
  /\ last.op = "Creates"
  /\ \A i \in {1, 2} : last.reqs[i].pc = "done"
  /\ last.reqs[1].logId = last.reqs[2].logId
  /\ last.reqs[1].body # last.reqs[2].body
  /\ last.order = <<2, 1>>
  /\ last.reqs[2].resp.success
  /\ last.reqs[1].resp.error = MsgConflict

\* C20: for every API request whose response completes while the ledger
\* is reachable, the request logger's CreateLog is accepted by the
\* contract and an API_REQUEST record of the request is in the ledger.
C20_RequestsRecorded ==
  (last.op = "ApiRequest" /\ last.fault = "none") =>
    /\ last.err = NoError
    /\ ledger[last.id] # Nil
    /\ Stored(last.id).Action = S("API_REQUEST")
    /\ Stored(last.id).Resource = last.url

\* C21: normalizing metadata twice gives what normalizing it once gives, for
\* processLogMetadata and for the readers of the state database, on every
\* raw input.
C21_NormalizeIdempotent ==
  last.op = "Normalize" =>
    \A by \in {"processLogMetadata", "index"} : last.twice[by] = last.once[by]

\* C28: the four normalizers (the readers of the state database,
\* processLogMetadata, the mapping of the full enumeration and the mapping
\* of the sweep) return the same metadata for every raw record.
C28_NormalizersAgree ==
  last.op = "Normalize" =>
    \A a, b \in Normalizers :
      Field(last.once[a], "metadata") = Field(last.once[b], "metadata")

\* C22: once ListAll has started its sweep, a sub-query that fails, whatever
\* it throws, does not abort the sweep: every discovery query is still issued
\* and the response is a success.
C22_SweepSurvivesFailures ==
  (last.op = "ListAll" /\ Len(last.calls) > 1) =>
    /\ SweepIssued(last.calls)
    /\ last.resp.success

\* the ids of the records a discovery query of the last sweep returned
SeenBy(call) ==
  LET Ids(logs) ==
        IF logs[1] = "array"
        THEN {Field(logs[2][i], "id") : i \in 1..Len(logs[2])}
        ELSE {}
      Parsed(result) ==
        IF result.err # NoError THEN {} ELSE Ids(safeParseJSON(result.payload))
  IN Parsed(SweepEvaluate(ledger, now, call[1],
                          IF call[1] = "GetLogsByTimeRange"
                          THEN <<call[2], ISOString(now, last.ms)>>
                          ELSE <<call[2]>>,
                          last.failing, last.nilText))

\* C23: every record a successful discovery query of the sweep (time
\* range, per action, per resource) returned is in the list ListAll answers
\* with.
C23_SweepKeepsSeen ==
  (last.op = "ListAll" /\ Len(last.calls) > 1 /\ last.resp.success) =>
    \A c \in 2..Len(last.calls) :
      last.calls[c][1] # "GetLogsByUser" =>
        \A id \in SeenBy(last.calls[c]) :
          \E i \in 1..Len(last.resp.logs[2]) : Field(last.resp.logs[2][i], "id") = id

\* the requests of the aggregator that replay a remembered id, and those
\* that query a category
IsIdPath(path) == Len(path) = 1
IsCategoryPath(path) == Len(path) = 2 /\ path[1] = S("action")

\* C24: getReliableLogs requests all records first; when that call answers
\* with zero records it queries the categories; and it replays a remembered
\* id only after the category queries.
C24_StrategyOrder ==
  last.op = "FetchLogs" =>
    /\ last.requests[1] = <<>>
    /\ (last.first.success /\ last.first.logs = JArr(<<>>)) =>
         \E i \in 1..Len(last.requests) : IsCategoryPath(last.requests[i])
    /\ \A i \in 1..Len(last.requests) :
         IsIdPath(last.requests[i]) =>
           \E j \in 1..(i - 1) : IsCategoryPath(last.requests[j])

\* the ids recent_logs holds, in order
RecentLogs ==
  IF Truthy(localStorage.recent_logs)
  THEN [i \in 1..Len(JSONParse(localStorage.recent_logs[2]).val[2]) |->
          JSONParse(localStorage.recent_logs[2]).val[2][i][2]]
  ELSE <<>>

\* the last n entries of a sequence, all of it when it is shorter
LastOf(seq, n) == IF Len(seq) > n THEN SubSeq(seq, Len(seq) - n + 1, Len(seq)) ELSE seq

\* C25: after any sequence of creates from the form, recent_logs holds at
\* most 10 ids, none twice, and is exactly the most recently formCreated ids in
\* creation order; a create that fails leaves it as it was.
C25_RecencyList ==
  /\ Len(RecentLogs) <= MaxRecent
  /\ \A i, j \in 1..Len(RecentLogs) : RecentLogs[i] = RecentLogs[j] => i = j
  /\ RecentLogs = LastOf(formCreated, MaxRecent)
  /\ (last.op = "SubmitForm" /\ ~last.response.success) => localStorage = last.before

\* the form's eleventh create has pushed the first id out of the list
C25_Witness ==
  /\ last.op = "SubmitForm"
  /\ last.response.success
  /\ Len(formCreated) > MaxRecent
  /\ Len(RecentLogs) = MaxRecent
  /\ RecentLogs[1] # formCreated[1]

\* C26: a gateway a handler obtained from connectToContract has been
\* disconnected when the handler has sent its response, on the success
\* path and on every failure path.
C26_GatewayDisconnected ==
  (last.op \in ReadOps \cup {"CreateRecord"} /\ last.gateway.obtained) =>
    last.gateway.disconnected

\* C27: a GET of /api/logs/timerange, with or without startTime and endTime,
\* is handled by the time-range handler and never by the get-by-id handler.
C27_TimeRangeRouted ==
  last.op = "ListByTimeRange" =>
    /\ last.handler = "getByTimeRange"
    /\ last.handler # "getById"

\* a result of the shape {success: true, logs: <array>}
ReliableShape(data) == data.success /\ data.logs[1] = "array"

\* C29: getReliableLogs, in either copy, completes with a result of the
\* shape {success: true, logs: <array>}, whatever requests fail, whatever
\* malformed bodies are answered and whatever recent_logs holds.
C29_AlwaysSucceeds ==
  last.op = "GetReliableLogs" =>
    /\ ReliableShape(last.byCategory.data)
    /\ ReliableShape(last.byKnownIds.data)

\* the records of a list, as a set
RecordsOf(logs) == {logs[2][i] : i \in 1..Len(logs[2])}

\* C30: within one call of getReliableLogs, in either copy, the records a
\* successful all-records request returned are all in the result.
C30_BulkNotLost ==
  (last.op = "GetReliableLogs" /\ last.first.success /\ last.first.logs[1] = "array") =>
    /\ ReliableShape(last.byCategory.data)
         => RecordsOf(last.first.logs) \subseteq RecordsOf(last.byCategory.data.logs)
    /\ ReliableShape(last.byKnownIds.data)
         => RecordsOf(last.first.logs) \subseteq RecordsOf(last.byKnownIds.data.logs)
====
